---------------------------- MODULE Spec2Model ----------------------------
(***************************************************************************)
(* A model of the map Tile entity (Tile.ts), of the pole tile data source  *)
(* (PolarTileDataSource.ts) and of the collaborators a Tile talks to.      *)
(*                                                                         *)
(* Every operation of a Tile is one action.  An action records in `op` the *)
(* operation that ran and the tile it ran on, in `calls` the calls the     *)
(* operation made on other objects, in call order, and in `ret` what it    *)
(* returned.                                                               *)
(***************************************************************************)
EXTENDS Integers, Sequences, FiniteSets, TLC

VARIABLES
    frameNumber,    \* dataSource.mapView.frameNumber
    tile,           \* the Tile objects, by name
    loaderState,    \* ITileLoader.state of the loader made for each tile
    delivered,      \* whether that loader's result was handed to its tile
    poleMaterials,  \* PolarTileDataSource.m_northPoleMaterial / m_southPoleMaterial
    priority,       \* TextElement.priority of each text element
    geometryLoader, \* the flags of the TileGeometryLoader made for each tile
    granted,        \* the tiles whose isVisible was set to true at some time
    op,             \* the operation that ran last, the tile it ran on, and the
                    \* operation that ran before it
    calls,          \* the calls that operation made on other objects, in order
    ret,            \* what that operation returned: <<>> for nothing, else <<value>>
    feature         \* the polygon feature the OMV decoder hands to its emitter

vars ==
    <<frameNumber, tile, loaderState, delivered, poleMaterials, priority,
      geometryLoader, granted, op, calls, ret, feature>>

(***************************************************************************)
(* Bounds of the model.                                                    *)
(***************************************************************************)
MaxFrame == 3
MaxObjects == 2
MaxLabels == 1
MaxLabelCopies == 2

(***************************************************************************)
(* Values.                                                                 *)
(***************************************************************************)
Undefined == "undefined"

Tiles == {"A", "B"}

\* The objects the model names: the loader and the geometry loader made for
\* a tile, the performance statistics, the pick handler.
LoaderOf(t) == IF t = "A" THEN "loaderA" ELSE "loaderB"

GeometryLoaderOf(t) == IF t = "A" THEN "geometryLoaderA" ELSE "geometryLoaderB"

Ev(target, method) == [target |-> target, method |-> method]

EvArg(target, method, arg) == [target |-> target, method |-> method, arg |-> arg]

EvRet(target, method, arg, returned) ==
    [target |-> target, method |-> method, arg |-> arg, returned |-> returned]

RECURSIVE Flatten(_)
Flatten(ss) == IF ss = <<>> THEN <<>> ELSE Head(ss) \o Flatten(Tail(ss))

Count(e, s) == Cardinality({i \in DOMAIN s : s[i] = e})

Range(s) == {s[i] : i \in DOMAIN s}

RECURSIVE SumOver(_, _)
SumOver(f, S) ==
    IF S = {} THEN 0
    ELSE LET x == CHOOSE y \in S : TRUE IN f[x] + SumOver(f, S \ {x})

Max(a, b) == IF a >= b THEN a ELSE b

Min(a, b) == IF a <= b THEN a ELSE b

MINIMUM_SMALL_OBJECT_SIZE_ESTIMATION == 16

MINIMUM_OBJECT_SIZE_ESTIMATION == 100

TextElementSize == 312

(***************************************************************************)
(* Decoded tiles.  A DecodedTile may carry a bounding box, a tile info     *)
(* (with its size in bytes) and a decode time.                             *)
(***************************************************************************)
defaultEmptyDecodedTile == "emptyDecodedTile"

DecodedTiles == {defaultEmptyDecodedTile, "plain", "boxed", "withInfo"}

TileInfoNumBytes == 64

\* decodedTile.boundingBox: <<>> when the decoder supplies none
DecodedBoundingBox(d) ==
    IF d = "boxed" THEN <<[from |-> "decodedTile", box |-> d]>> ELSE <<>>

\* tileInfo.numBytes of a decoded tile, -1 when it has no tileInfo
DecodedTileInfo(d) == IF d = "withInfo" THEN TileInfoNumBytes ELSE -1

DecodedHasDecodeTime(d) == d \in {"boxed", "withInfo"}

(***************************************************************************)
(* Road intersection records, as the pick handler returns them: n entries  *)
(* in techniqueIndex, ids and objInfos defined or not.                     *)
(***************************************************************************)
RoadRecords ==
    { [n |-> 2, ids |-> TRUE, objInfos |-> FALSE],
      [n |-> 1, ids |-> FALSE, objInfos |-> TRUE] }

\* getRoadIntersectionDataSize that counts the ids whether they are there or not
getRoadIntersectionDataSize_IdsAlways(intersectionData) ==
    LET bytesPerEntry == 8 + 8 + 8 + 8 + MINIMUM_OBJECT_SIZE_ESTIMATION
        numEntries == intersectionData.n
    IN  MINIMUM_OBJECT_SIZE_ESTIMATION
          + numEntries * bytesPerEntry
          + numEntries * 8
          + (IF intersectionData.objInfos
                 THEN numEntries * MINIMUM_SMALL_OBJECT_SIZE_ESTIMATION ELSE 0)

getRoadIntersectionDataSize(intersectionData) ==
    LET bytesPerEntry == 8 + 8 + 8 + 8 + MINIMUM_OBJECT_SIZE_ESTIMATION
        numEntries == intersectionData.n
    IN  MINIMUM_OBJECT_SIZE_ESTIMATION
          + numEntries * bytesPerEntry
          + (IF intersectionData.ids THEN numEntries * 8 ELSE 0)
          + (IF intersectionData.objInfos
                 THEN numEntries * MINIMUM_SMALL_OBJECT_SIZE_ESTIMATION ELSE 0)

(***************************************************************************)
(* Renderable objects (THREE.Object3D): a geometry or none, a list of      *)
(* materials (empty: no material; an entry may be undefined), children,    *)
(* and the visible flag.  A material's texture-valued properties are       *)
(* listed in property order.                                               *)
(***************************************************************************)
Textures == {"sharedTexture", "ownTexture"}

MaterialTextures(m) ==
    CASE m = "materialA" -> <<"sharedTexture">>
      [] m = "materialB" -> <<"sharedTexture", "ownTexture">>
      [] OTHER -> <<>>

MeshA ==
    [id |-> "meshA", geometry |-> "geometryA", material |-> <<"materialA">>,
     children |-> <<>>, visible |-> TRUE]

MeshB ==
    [id |-> "meshB", geometry |-> "geometryB", material |-> <<"materialB", Undefined>>,
     children |-> <<>>, visible |-> TRUE]

Group ==
    [id |-> "group", geometry |-> Undefined, material |-> <<>>,
     children |-> <<MeshA>>, visible |-> FALSE]

SceneObjects == {MeshA, MeshB, Group}

\* Object3D.traverse: the object itself, then each child's traversal
RECURSIVE Traverse(_)
Traverse(object) ==
    <<object>> \o Flatten([i \in DOMAIN object.children |-> Traverse(object.children[i])])

(***************************************************************************)
(* Geo boxes of tile keys: south and north latitude in degrees, and the    *)
(* level of the key.                                                       *)
(***************************************************************************)
GeoBoxes ==
    { [south |-> -90, north |-> -45, level |-> 2],
      [south |-> -45, north |-> 0, level |-> 2],
      [south |-> 0, north |-> 45, level |-> 2],
      [south |-> 45, north |-> 90, level |-> 2],
      [south |-> 0, north |-> 90, level |-> 1],
      [south |-> -90, north |-> 0, level |-> 1],
      [south |-> -90, north |-> 90, level |-> 0] }

\* the zoom levels MapView asks shouldRender about
ZoomLevels == {1, 2, 3}

\* MercatorProjection.MAXIMUM_LATITUDE in degrees, rounded down
m_maxLatitude == 85

TextElements == {"label1", "label2"}

Priorities == {1, 2}

(***************************************************************************)
(* The Tile object.                                                        *)
(***************************************************************************)
\* The fields of a Tile after its constructor ran.  keepsMaterialOf is not a
\* field: it names the objects for which the tile's class answers false in
\* shouldDisposeObjectMaterial, none for class Tile itself.
NewTile(geoBox) ==
    [ geoBox |-> geoBox,
      keepsMaterialOf |-> {},
      boundingBox |-> [from |-> "geoBox", box |-> "projected"],
      roadIntersectionData |-> <<>>,
      frameNumLastRequested |-> -1,
      frameNumVisible |-> -1,
      frameNumLastVisible |-> -1,
      numFramesVisible |-> 0,
      visibilityCounter |-> -1,
      preparedTextPaths |-> Undefined,
      objects |-> <<>>,
      m_disposed |-> FALSE,
      m_forceHasGeometry |-> Undefined,
      m_tileLoader |-> Undefined,
      m_decodedTile |-> Undefined,
      m_tileGeometryLoader |-> Undefined,
      m_userTextElements |-> <<>>,
      m_textElementGroups |-> {},
      m_placedTextElements |-> {},
      m_textElementsChanged |-> FALSE,
      m_visibleArea |-> 0,
      m_resourceInfo |-> <<>>,
      m_ownedTextures |-> {},
      m_animatedExtrusionTileHandler |-> Undefined ]

\* isVisible without the frame of grace
isVisible_NoGrace(r) == r.frameNumLastRequested >= frameNumber

\* get isVisible
isVisible(r) == r.frameNumLastRequested >= frameNumber - 1

\* set isVisible with the two stamps the other way round
SetVisibleTile_Swapped(r, visible) ==
    [r EXCEPT !.frameNumLastRequested = IF visible THEN -1 ELSE frameNumber]

\* set isVisible
SetVisibleTile(r, visible) ==
    [r EXCEPT !.frameNumLastRequested = IF visible THEN frameNumber ELSE -1]

\* invalidateResourceInfo that keeps the cached value
InvalidateTile_Keep(r) == r

\* invalidateResourceInfo
InvalidateTile(r) == [r EXCEPT !.m_resourceInfo = <<>>]

\* addOwnedTexture
AddOwnedTextureTile(r, texture) ==
    [r EXCEPT !.m_ownedTextures = @ \cup {texture}]

\* shouldDisposeObjectGeometry, shouldDisposeObjectMaterial: the defaults
shouldDisposeObjectGeometry(r, object) == TRUE

shouldDisposeObjectMaterial(r, object) == TRUE

\* this.shouldDisposeObjectMaterial(object): the method of Tile, or that of
\* a subclass which keeps the materials of some objects
OverriddenShouldDisposeObjectMaterial(r, object) ==
    IF object.id \in r.keepsMaterialOf THEN FALSE
    ELSE shouldDisposeObjectMaterial(r, object)

\* shouldDisposeTexture that does not ask who owns the texture
shouldDisposeTexture_Always(r, texture) == TRUE

\* shouldDisposeTexture
shouldDisposeTexture(r, texture) == texture \in r.m_ownedTextures

\* hasGeometry that does not look at the forced value
hasGeometry_ObjectsOnly(r) == Len(r.objects) # 0

\* hasGeometry that takes an empty list of objects for geometry
hasGeometry_EmptyCounts(r) ==
    IF r.m_forceHasGeometry = Undefined
        THEN Len(r.objects) >= 0
        ELSE r.m_forceHasGeometry = "true"

\* get hasGeometry
hasGeometry(r) ==
    IF r.m_forceHasGeometry = Undefined
        THEN Len(r.objects) # 0
        ELSE r.m_forceHasGeometry = "true"

(***************************************************************************)
(* GroupedPriorityList: a set of groups, one per priority that has         *)
(* elements, each with its elements in insertion order.                    *)
(***************************************************************************)
GroupOf(groups, p) == {g \in groups : g.priority = p}

GroupedAdd(groups, element, p) ==
    IF GroupOf(groups, p) = {}
        THEN groups \cup {[priority |-> p, elements |-> <<element>>]}
        ELSE {IF g.priority = p
                  THEN [g EXCEPT !.elements = Append(@, element)]
                  ELSE g : g \in groups}

IndexOf(s, e) ==
    IF e \in Range(s) THEN CHOOSE i \in DOMAIN s : s[i] = e /\ \A j \in 1..(i - 1) : s[j] # e
    ELSE 0

RemoveAt(s, i) == [j \in 1..(Len(s) - 1) |-> IF j < i THEN s[j] ELSE s[j + 1]]

\* whether remove finds the element: in the group of its current priority
GroupedFinds(groups, element, p) ==
    \E g \in groups : g.priority = p /\ element \in Range(g.elements)

GroupedRemove(groups, element, p) ==
    IF ~GroupedFinds(groups, element, p) THEN groups
    ELSE LET g == CHOOSE x \in groups : x.priority = p
             rest == RemoveAt(g.elements, IndexOf(g.elements, element))
         IN  IF rest = <<>> THEN groups \ {g}
             ELSE (groups \ {g}) \cup {[g EXCEPT !.elements = rest]}

GroupedCount(groups) ==
    SumOver([g \in groups |-> Len(g.elements)], groups)

(***************************************************************************)
(* MapViewUtils.estimateObject3dSize: every object reached, and every      *)
(* geometry and material on them, is counted once by its identity.         *)
(***************************************************************************)
GeometryGpuSize == 1000

ReachedObjects(objects) ==
    Range(Flatten([i \in DOMAIN objects |-> Traverse(objects[i])]))

ReachedGeometries(objects) ==
    {o.geometry : o \in {x \in ReachedObjects(objects) : x.geometry # Undefined}}

ReachedMaterials(objects) ==
    UNION {Range(o.material) : o \in ReachedObjects(objects)} \ {Undefined}

estimateObject3dSize(objects) ==
    [ heapSize |->
          MINIMUM_OBJECT_SIZE_ESTIMATION
              * ( Cardinality({o.id : o \in ReachedObjects(objects)})
                  + Cardinality(ReachedGeometries(objects))
                  + Cardinality(ReachedMaterials(objects)) ),
      gpuSize |-> GeometryGpuSize * Cardinality(ReachedGeometries(objects)) ]

\* computeResourceInfo: the TileResourceInfo it stores in m_resourceInfo
computeResourceInfo(r) ==
    LET aggregatedObjSize == estimateObject3dSize(r.objects)
        num3dObjects == Cardinality({i \in DOMAIN r.objects : r.objects[i].visible})
        numTextElements == GroupedCount(r.m_textElementGroups)
        numUserTextElements == Len(r.m_userTextElements)
        labelHeap == (numTextElements + numUserTextElements) * TextElementSize
        infoHeap ==
            IF r.m_decodedTile # Undefined /\ DecodedTileInfo(r.m_decodedTile) # -1
                THEN DecodedTileInfo(r.m_decodedTile) ELSE 0
        roadHeap ==
            IF r.roadIntersectionData # <<>>
                THEN getRoadIntersectionDataSize(r.roadIntersectionData[1]) ELSE 0
    IN  [ heapSize |-> aggregatedObjSize.heapSize + infoHeap + labelHeap + roadHeap,
          gpuSize |-> aggregatedObjSize.gpuSize,
          num3dObjects |-> num3dObjects,
          numTextElements |-> numTextElements,
          numUserTextElements |-> numUserTextElements ]

\* getResourceInfo / memoryUsage that compute the ledger at every read
FillResourceInfo_Always(r) == [r EXCEPT !.m_resourceInfo = <<computeResourceInfo(r)>>]

\* getResourceInfo / memoryUsage: m_resourceInfo is filled when it is undefined
FillResourceInfo(r) ==
    IF r.m_resourceInfo = <<>>
        THEN [r EXCEPT !.m_resourceInfo = <<computeResourceInfo(r)>>]
        ELSE r

\* setDecodedTile that assigns decodedTile.boundingBox without the check
SetDecodedTileTile_AlwaysBox(r, decodedTile) ==
    InvalidateTile(
        [r EXCEPT !.m_decodedTile = decodedTile,
                  !.boundingBox =
                      IF DecodedBoundingBox(decodedTile) # <<>>
                          THEN DecodedBoundingBox(decodedTile)[1]
                          ELSE [from |-> "decodedTile", box |-> Undefined]])

\* setDecodedTile: the fields it leaves
SetDecodedTileTile(r, decodedTile) ==
    InvalidateTile(
        [r EXCEPT !.m_decodedTile = decodedTile,
                  !.boundingBox =
                      IF DecodedBoundingBox(decodedTile) # <<>>
                          THEN DecodedBoundingBox(decodedTile)[1] ELSE @])

\* setDecodedTile: the decode time goes to the statistics when they are enabled
SetDecodedTileCalls(decodedTile, statsEnabled) ==
    IF statsEnabled /\ DecodedHasDecodeTime(decodedTile)
        THEN <<EvArg("stats.currentFrame", "addValue", decodedTile)>>
        ELSE <<>>

\* removeDecodedTile
RemoveDecodedTileTile(r) == InvalidateTile([r EXCEPT !.m_decodedTile = Undefined])

\* forceHasGeometry that sets the empty decoded tile whatever the value is
ForceHasGeometryTile_AlwaysEmpties(r, value) ==
    [SetDecodedTileTile(r, defaultEmptyDecodedTile)
        EXCEPT !.m_forceHasGeometry = IF value THEN "true" ELSE "false"]

\* forceHasGeometry
ForceHasGeometryTile(r, value) ==
    [(IF value THEN SetDecodedTileTile(r, defaultEmptyDecodedTile) ELSE r)
        EXCEPT !.m_forceHasGeometry = IF value THEN "true" ELSE "false"]

(***************************************************************************)
(* clear() and dispose().                                                  *)
(***************************************************************************)
\* clear: disposeMaterial
disposeMaterial(r, material) ==
    LET props == MaterialTextures(material)
    IN  Flatten([i \in DOMAIN props |->
                    IF shouldDisposeTexture(r, props[i])
                        THEN <<Ev(props[i], "dispose")>> ELSE <<>>])
          \o <<Ev(material, "dispose")>>

\* disposeObject that does not ask shouldDisposeObjectMaterial
disposeObject_AnyMaterial(r, object) ==
    (IF object.geometry # Undefined /\ shouldDisposeObjectGeometry(r, object)
         THEN <<Ev(object.geometry, "dispose")>> ELSE <<>>)
      \o (IF object.material # <<>>
              THEN Flatten([i \in DOMAIN object.material |->
                               IF object.material[i] # Undefined
                                   THEN disposeMaterial(r, object.material[i])
                                   ELSE <<>>])
              ELSE <<>>)

\* clear: disposeObject
disposeObject(r, object) ==
    (IF object.geometry # Undefined /\ shouldDisposeObjectGeometry(r, object)
         THEN <<Ev(object.geometry, "dispose")>> ELSE <<>>)
      \o (IF object.material # <<>> /\ OverriddenShouldDisposeObjectMaterial(r, object)
              THEN Flatten([i \in DOMAIN object.material |->
                               IF object.material[i] # Undefined
                                   THEN disposeMaterial(r, object.material[i])
                                   ELSE <<>>])
              ELSE <<>>)

\* clear: the objects.forEach loop; the root object is disposed by the
\* traversal, which starts with it, and once more after the traversal
DisposeRoot(r, rootObject) ==
    LET visited == Traverse(rootObject)
    IN  Flatten([i \in DOMAIN visited |-> disposeObject(r, visited[i])])
          \o disposeObject(r, rootObject)

\* clear: every call it makes, in order
ClearCalls(r) ==
    Flatten([i \in DOMAIN r.objects |-> DisposeRoot(r, r.objects[i])])
      \o (IF r.m_animatedExtrusionTileHandler # Undefined
              THEN <<Ev(r.m_animatedExtrusionTileHandler, "dispose")>> ELSE <<>>)

\* clear that lets go of the decoded tile too
ClearTile_RemovesDecodedTile(r) ==
    InvalidateTile(
        [r EXCEPT !.objects = <<>>,
                  !.preparedTextPaths = IF @ # Undefined THEN "empty" ELSE @,
                  !.m_placedTextElements = {},
                  !.m_textElementGroups = {},
                  !.m_userTextElements = <<>>,
                  !.m_decodedTile = Undefined])

\* clear that takes a disposed tile back into use
ClearTile_Revives(r) ==
    InvalidateTile(
        [r EXCEPT !.objects = <<>>,
                  !.preparedTextPaths = IF @ # Undefined THEN "empty" ELSE @,
                  !.m_placedTextElements = {},
                  !.m_textElementGroups = {},
                  !.m_userTextElements = <<>>,
                  !.m_disposed = FALSE])

\* clear: the fields it leaves
ClearTile(r) ==
    InvalidateTile(
        [r EXCEPT !.objects = <<>>,
                  !.preparedTextPaths = IF @ # Undefined THEN "empty" ELSE @,
                  !.m_placedTextElements = {},
                  !.m_textElementGroups = {},
                  !.m_userTextElements = <<>>])

\* dispose that clears before it cancels the loader and disposes the geometry loader
DisposeCalls_ClearFirst(r, t) ==
    IF r.m_disposed THEN <<>>
    ELSE <<Ev(t, "clear")>>
           \o ClearCalls(r)
           \o (IF r.m_tileLoader # Undefined THEN <<Ev(r.m_tileLoader, "cancel")>> ELSE <<>>)
           \o (IF r.m_tileGeometryLoader # Undefined
                   THEN <<Ev(r.m_tileGeometryLoader, "dispose")>> ELSE <<>>)

\* dispose: every call it makes, in order
DisposeCalls(r, t) ==
    IF r.m_disposed THEN <<>>
    ELSE (IF r.m_tileLoader # Undefined THEN <<Ev(r.m_tileLoader, "cancel")>> ELSE <<>>)
           \o (IF r.m_tileGeometryLoader # Undefined
                   THEN <<Ev(r.m_tileGeometryLoader, "dispose")>> ELSE <<>>)
           \o <<Ev(t, "clear")>>
           \o ClearCalls(r)

\* dispose without the check of m_disposed
DisposeTile_NoGuard(r) ==
    [ClearTile([r EXCEPT !.m_tileLoader = Undefined,
                         !.m_tileGeometryLoader = Undefined])
        EXCEPT !.m_userTextElements = <<>>,
               !.m_disposed = TRUE,
               !.frameNumLastRequested = 0]

\* dispose that cancels the loader and keeps the reference to it
DisposeTile_KeepsLoader(r) ==
    IF r.m_disposed THEN r
    ELSE [ClearTile([r EXCEPT !.m_tileGeometryLoader = Undefined])
             EXCEPT !.m_userTextElements = <<>>,
                    !.m_disposed = TRUE,
                    !.frameNumLastRequested = 0]

\* dispose: the fields it leaves
DisposeTile(r) ==
    IF r.m_disposed THEN r
    ELSE [ClearTile([r EXCEPT !.m_tileLoader = Undefined,
                              !.m_tileGeometryLoader = Undefined])
             EXCEPT !.m_userTextElements = <<>>,
                    !.m_disposed = TRUE,
                    !.frameNumLastRequested = 0]

(***************************************************************************)
(* The geometry loader (TileGeometryLoader): the three flags a Tile reads.  *)
(* It loads the basic geometry, then all geometry, and is finished then.   *)
(***************************************************************************)
NewGeometryLoader ==
    [basicGeometryLoaded |-> FALSE, allGeometryLoaded |-> FALSE, isFinished |-> FALSE]

GeometryLoaderSuccessor(g) ==
    IF ~g.basicGeometryLoaded THEN [g EXCEPT !.basicGeometryLoaded = TRUE]
    ELSE IF ~g.allGeometryLoaded THEN [g EXCEPT !.allGeometryLoaded = TRUE]
    ELSE [g EXCEPT !.isFinished = TRUE]

\* the tile a geometry loader was made for
TileOfGeometryLoader(x) == CHOOSE t \in Tiles : GeometryLoaderOf(t) = x

\* get basicGeometryLoaded
basicGeometryLoaded(r) ==
    IF r.m_tileGeometryLoader = Undefined
        THEN hasGeometry(r)
        ELSE LET g == geometryLoader[TileOfGeometryLoader(r.m_tileGeometryLoader)]
             IN  g.basicGeometryLoaded \/ g.isFinished

\* allGeometryLoaded that reads the loader's flag of the basic geometry
allGeometryLoaded_Basic(r) == basicGeometryLoaded(r)

\* get allGeometryLoaded
allGeometryLoaded(r) ==
    IF r.m_tileGeometryLoader = Undefined
        THEN hasGeometry(r)
        ELSE LET g == geometryLoader[TileOfGeometryLoader(r.m_tileGeometryLoader)]
             IN  g.allGeometryLoaded \/ g.isFinished

(***************************************************************************)
(* The tile loader (ITileLoader): Initialized, Loading, Loaded, Decoding,  *)
(* Ready, with Canceled and Failed reached from any state that is not      *)
(* final.                                                                  *)
(***************************************************************************)
LoaderFinal == {"Ready", "Canceled", "Failed"}

LoaderSuccessor(state) ==
    CASE state = "Initialized" -> "Loading"
      [] state = "Loading" -> "Loaded"
      [] state = "Loaded" -> "Decoding"
      [] state = "Decoding" -> "Ready"
      [] OTHER -> state

\* ITileLoader.cancel: no effect on a loader that is in a final state
LoaderCancel(state) == IF state \in LoaderFinal THEN state ELSE "Canceled"

\* the loaders' states after the calls `cs` were made
LoadersAfter(cs) ==
    [t \in Tiles |->
        IF Ev(LoaderOf(t), "cancel") \in Range(cs)
            THEN LoaderCancel(loaderState[t]) ELSE loaderState[t]]

(***************************************************************************)
(* Actions.  Ran(t, name, r, cs, rv): operation `name` ran on tile t, left *)
(* it with the fields r, made the calls cs and returned rv.                *)
(***************************************************************************)
Ran(t, name, r, cs, rv) ==
    /\ tile' = [tile EXCEPT ![t] = r]
    /\ op' = [name |-> name, tile |-> t, after |-> op.name]
    /\ calls' = cs
    /\ ret' = rv
    /\ loaderState' = LoadersAfter(cs)

\* MapView renders the next frame
AdvanceFrame ==
    /\ frameNumber < MaxFrame
    /\ frameNumber' = frameNumber + 1
    /\ op' = [name |-> "frame", tile |-> "-", after |-> op.name]
    /\ calls' = <<>>
    /\ ret' = <<>>
    /\ UNCHANGED <<feature, tile, loaderState, delivered, poleMaterials, priority, geometryLoader, granted>>

SetIsVisible(t, visible) ==
    /\ Ran(t, "isVisible=", SetVisibleTile(tile[t], visible), <<>>, <<>>)
    /\ granted' = IF visible THEN granted \cup {t} ELSE granted
    /\ UNCHANGED <<feature, frameNumber, delivered, poleMaterials, priority, geometryLoader>>

SetTileLoader(t, tileLoader) ==
    /\ Ran(t, "tileLoader=", [tile[t] EXCEPT !.m_tileLoader = tileLoader], <<>>, <<>>)
    /\ UNCHANGED <<feature, frameNumber, delivered, poleMaterials, priority, geometryLoader, granted>>

SetTileGeometryLoader(t, tileGeometryLoader) ==
    /\ Ran(t, "tileGeometryLoader=",
           [tile[t] EXCEPT !.m_tileGeometryLoader = tileGeometryLoader], <<>>, <<>>)
    /\ UNCHANGED <<feature, frameNumber, delivered, poleMaterials, priority, geometryLoader, granted>>

\* set visibleArea
SetVisibleArea(t, area) ==
    /\ Ran(t, "visibleArea=", [tile[t] EXCEPT !.m_visibleArea = area],
           IF tile[t].m_tileLoader # Undefined
               THEN <<EvArg(tile[t].m_tileLoader, "updatePriority", area)>> ELSE <<>>,
           <<>>)
    /\ UNCHANGED <<feature, frameNumber, delivered, poleMaterials, priority, geometryLoader, granted>>

SetDecodedTile(t, decodedTile, statsEnabled) ==
    /\ Ran(t, "setDecodedTile", SetDecodedTileTile(tile[t], decodedTile),
           SetDecodedTileCalls(decodedTile, statsEnabled), <<>>)
    /\ UNCHANGED <<feature, frameNumber, delivered, poleMaterials, priority, geometryLoader, granted>>

RemoveDecodedTile(t) ==
    /\ Ran(t, "removeDecodedTile", RemoveDecodedTileTile(tile[t]), <<>>, <<>>)
    /\ UNCHANGED <<feature, frameNumber, delivered, poleMaterials, priority, geometryLoader, granted>>

ForceHasGeometry(t, value, statsEnabled) ==
    /\ Ran(t, "forceHasGeometry", ForceHasGeometryTile(tile[t], value),
           IF value THEN SetDecodedTileCalls(defaultEmptyDecodedTile, statsEnabled)
           ELSE <<>>,
           <<>>)
    /\ UNCHANGED <<feature, frameNumber, delivered, poleMaterials, priority, geometryLoader, granted>>

\* prepareTileInfo without the check of m_disposed
PrepareTileInfoActs_NoDisposedCheck(r) ==
    /\ ~(r.m_decodedTile = Undefined \/ ~isVisible(r))
    /\ DecodedTileInfo(r.m_decodedTile) # -1

\* prepareTileInfo: whether it gets past its early return and registers the tile
PrepareTileInfoActs(r) ==
    /\ ~(r.m_decodedTile = Undefined \/ r.m_disposed \/ ~isVisible(r))
    /\ DecodedTileInfo(r.m_decodedTile) # -1

\* prepareTileInfo, with the record the pick handler's registerTile returns
PrepareTileInfoTile(r, record) ==
    IF PrepareTileInfoActs(r) THEN [r EXCEPT !.roadIntersectionData = <<record>>] ELSE r

PrepareTileInfo(t, record) ==
    /\ Ran(t, "prepareTileInfo", PrepareTileInfoTile(tile[t], record),
           IF PrepareTileInfoActs(tile[t])
               THEN <<EvRet("pickHandler", "registerTile", t, record)>> ELSE <<>>,
           <<>>)
    /\ UNCHANGED <<feature, frameNumber, delivered, poleMaterials, priority, geometryLoader, granted>>

\* a caller (the geometry loader, a data source) pushes an object on tile.objects
PushObject(t, object) ==
    /\ Len(tile[t].objects) < MaxObjects
    /\ Ran(t, "objects.push", [tile[t] EXCEPT !.objects = Append(@, object)], <<>>, <<>>)
    /\ UNCHANGED <<feature, frameNumber, delivered, poleMaterials, priority, geometryLoader, granted>>

Clear(t) ==
    /\ Ran(t, "clear", ClearTile(tile[t]), ClearCalls(tile[t]), <<>>)
    /\ UNCHANGED <<feature, frameNumber, delivered, poleMaterials, priority, geometryLoader, granted>>

Dispose(t) ==
    /\ Ran(t, "dispose", DisposeTile(tile[t]), DisposeCalls(tile[t], t), <<>>)
    /\ UNCHANGED <<feature, frameNumber, delivered, poleMaterials, priority, geometryLoader, granted>>

\* the loader of tile t goes one state on
LoaderAdvance(t) ==
    /\ loaderState[t] \notin LoaderFinal
    /\ loaderState' = [loaderState EXCEPT ![t] = LoaderSuccessor(@)]
    /\ op' = [name |-> "loader.advance", tile |-> t, after |-> op.name]
    /\ calls' = <<>>
    /\ ret' = <<>>
    /\ UNCHANGED <<feature, frameNumber, tile, delivered, poleMaterials, priority, geometryLoader, granted>>

\* the loader of tile t fails
LoaderFail(t) ==
    /\ loaderState[t] \notin LoaderFinal
    /\ loaderState' = [loaderState EXCEPT ![t] = "Failed"]
    /\ op' = [name |-> "loader.fail", tile |-> t, after |-> op.name]
    /\ calls' = <<>>
    /\ ret' = <<>>
    /\ UNCHANGED <<feature, frameNumber, tile, delivered, poleMaterials, priority, geometryLoader, granted>>

\* the completion of a loader that is Ready hands its decoded tile to the tile
Deliver(t, decodedTile, statsEnabled) ==
    /\ loaderState[t] = "Ready"
    /\ ~delivered[t]
    /\ delivered' = [delivered EXCEPT ![t] = TRUE]
    /\ Ran(t, "deliver", SetDecodedTileTile(tile[t], decodedTile),
           SetDecodedTileCalls(decodedTile, statsEnabled), <<>>)
    /\ UNCHANGED <<feature, frameNumber, poleMaterials, priority, geometryLoader, granted>>

\* addUserTextElement
AddUserTextElementTile(r, textElement) ==
    [r EXCEPT !.m_userTextElements = Append(@, textElement),
              !.m_textElementsChanged = TRUE]

\* addUserTextElement on a tile with fewer than `max` user text elements
AddUserTextElementUpTo(t, textElement, max) ==
    /\ Len(tile[t].m_userTextElements) < max
    /\ Ran(t, "addUserTextElement", AddUserTextElementTile(tile[t], textElement),
           <<>>, <<>>)
    /\ UNCHANGED <<feature, frameNumber, delivered, poleMaterials, priority, geometryLoader, granted>>

AddUserTextElement(t, textElement) == AddUserTextElementUpTo(t, textElement, MaxLabels)

\* removeUserTextElement
RemoveUserTextElementTile(r, textElement) ==
    LET foundIndex == IndexOf(r.m_userTextElements, textElement)
    IN  IF foundIndex >= 1
            THEN [r EXCEPT !.m_userTextElements = RemoveAt(@, foundIndex),
                           !.m_textElementsChanged = TRUE]
            ELSE r

RemoveUserTextElement(t, textElement) ==
    /\ Ran(t, "removeUserTextElement", RemoveUserTextElementTile(tile[t], textElement),
           <<>>, <<IndexOf(tile[t].m_userTextElements, textElement) >= 1>>)
    /\ UNCHANGED <<feature, frameNumber, delivered, poleMaterials, priority, geometryLoader, granted>>

\* addTextElement
AddTextElementTile(r, textElement) ==
    [r EXCEPT !.m_textElementGroups = GroupedAdd(@, textElement, priority[textElement]),
              !.m_textElementsChanged = TRUE]

\* addTextElement on a tile with fewer than `max` text elements
AddTextElementUpTo(t, textElement, max) ==
    /\ GroupedCount(tile[t].m_textElementGroups) < max
    /\ Ran(t, "addTextElement", AddTextElementTile(tile[t], textElement), <<>>, <<>>)
    /\ UNCHANGED <<feature, frameNumber, delivered, poleMaterials, priority, geometryLoader, granted>>

AddTextElement(t, textElement) == AddTextElementUpTo(t, textElement, MaxLabels)

\* removeTextElement that sets textElementsChanged whether it removed or not
RemoveTextElementTile_AlwaysChanged(r, textElement) ==
    [r EXCEPT !.m_textElementGroups =
                  GroupedRemove(@, textElement, priority[textElement]),
              !.m_textElementsChanged = TRUE]

\* removeTextElement
RemoveTextElementTile(r, textElement) ==
    IF GroupedFinds(r.m_textElementGroups, textElement, priority[textElement])
        THEN [r EXCEPT !.m_textElementGroups =
                           GroupedRemove(@, textElement, priority[textElement]),
                       !.m_textElementsChanged = TRUE]
        ELSE r

RemoveTextElement(t, textElement) ==
    /\ Ran(t, "removeTextElement", RemoveTextElementTile(tile[t], textElement), <<>>,
           <<GroupedFinds(tile[t].m_textElementGroups, textElement,
                          priority[textElement])>>)
    /\ UNCHANGED <<feature, frameNumber, delivered, poleMaterials, priority, geometryLoader, granted>>

\* a caller changes the priority of a text element
SetPriority(textElement, p) ==
    /\ priority[textElement] # p
    /\ priority' = [priority EXCEPT ![textElement] = p]
    /\ op' = [name |-> "priority=", tile |-> "-", after |-> op.name]
    /\ calls' = <<>>
    /\ ret' = <<>>
    /\ UNCHANGED <<feature, frameNumber, tile, loaderState, delivered, poleMaterials,
                   geometryLoader, granted>>

\* set textElementsChanged
SetTextElementsChanged(t, changed) ==
    /\ Ran(t, "textElementsChanged=", [tile[t] EXCEPT !.m_textElementsChanged = changed],
           <<>>, <<>>)
    /\ UNCHANGED <<feature, frameNumber, delivered, poleMaterials, priority, geometryLoader, granted>>

\* getResourceInfo: computeResourceInfo runs when m_resourceInfo is undefined
GetResourceInfo(t) ==
    /\ Ran(t, "getResourceInfo", FillResourceInfo(tile[t]),
           IF tile[t].m_resourceInfo = <<>>
               THEN <<Ev(t, "computeResourceInfo")>> ELSE <<>>,
           <<FillResourceInfo(tile[t]).m_resourceInfo[1]>>)
    /\ UNCHANGED <<feature, frameNumber, delivered, poleMaterials, priority, geometryLoader, granted>>

\* get memoryUsage
MemoryUsage(t) ==
    /\ Ran(t, "memoryUsage", FillResourceInfo(tile[t]),
           IF tile[t].m_resourceInfo = <<>>
               THEN <<Ev(t, "computeResourceInfo")>> ELSE <<>>,
           <<FillResourceInfo(tile[t]).m_resourceInfo[1].heapSize>>)
    /\ UNCHANGED <<feature, frameNumber, delivered, poleMaterials, priority, geometryLoader, granted>>

InvalidateResourceInfo(t) ==
    /\ Ran(t, "invalidateResourceInfo", InvalidateTile(tile[t]), <<>>, <<>>)
    /\ UNCHANGED <<feature, frameNumber, delivered, poleMaterials, priority, geometryLoader, granted>>

AddOwnedTexture(t, texture) ==
    /\ Ran(t, "addOwnedTexture", AddOwnedTextureTile(tile[t], texture), <<>>, <<>>)
    /\ UNCHANGED <<feature, frameNumber, delivered, poleMaterials, priority, geometryLoader, granted>>

\* the geometry loader of tile t goes one step on
GeometryLoaderAdvance(t) ==
    /\ ~geometryLoader[t].isFinished
    /\ geometryLoader' = [geometryLoader EXCEPT ![t] = GeometryLoaderSuccessor(@)]
    /\ op' = [name |-> "geometryLoader.advance", tile |-> t, after |-> op.name]
    /\ calls' = <<>>
    /\ ret' = <<>>
    /\ UNCHANGED <<feature, frameNumber, tile, loaderState, delivered, poleMaterials, priority, granted>>

\* get hasGeometry
GetHasGeometry(t) ==
    /\ Ran(t, "hasGeometry", tile[t], <<>>, <<hasGeometry(tile[t])>>)
    /\ UNCHANGED <<feature, frameNumber, delivered, poleMaterials, priority, geometryLoader, granted>>

\* get disposed
GetDisposed(t) ==
    /\ Ran(t, "disposed", tile[t], <<>>, <<tile[t].m_disposed>>)
    /\ UNCHANGED <<feature, frameNumber, delivered, poleMaterials, priority, geometryLoader, granted>>

\* get basicGeometryLoaded
GetBasicGeometryLoaded(t) ==
    /\ Ran(t, "basicGeometryLoaded", tile[t], <<>>, <<basicGeometryLoaded(tile[t])>>)
    /\ UNCHANGED <<feature, frameNumber, delivered, poleMaterials, priority, geometryLoader, granted>>

\* get allGeometryLoaded
GetAllGeometryLoaded(t) ==
    /\ Ran(t, "allGeometryLoaded", tile[t], <<>>, <<allGeometryLoaded(tile[t])>>)
    /\ UNCHANGED <<feature, frameNumber, delivered, poleMaterials, priority, geometryLoader, granted>>

(***************************************************************************)
(* PolarTileDataSource.                                                    *)
(***************************************************************************)
PoleMeshOf(t, material) ==
    [id |-> IF t = "A" THEN "poleMeshA" ELSE "poleMeshB",
     geometry |-> IF t = "A" THEN "poleGeometryA" ELSE "poleGeometryB",
     material |-> <<material>>,
     children |-> <<>>, visible |-> TRUE]

\* shouldRender
shouldRender(zoomLevel, geoBox) ==
    IF zoomLevel # geoBox.level \/ geoBox.level < 2 THEN FALSE
    ELSE geoBox.north > m_maxLatitude \/ geoBox.south < -m_maxLatitude

\* createTileGeometry: whether it gets to push a mesh, and with which material
PoleMaterialFor(geoBox) ==
    LET isNorthPole == geoBox.north > 0 /\ geoBox.south >= 0
    IN  IF isNorthPole THEN poleMaterials.north ELSE poleMaterials.south

\* createTileGeometry that does not limit the latitudes
CreatesPoleMesh_Unlimited(geoBox) ==
    /\ PoleMaterialFor(geoBox) # Undefined
    /\ ~(geoBox.south >= geoBox.north)

CreatesPoleMesh(geoBox) ==
    LET isNorthPole == geoBox.north > 0 /\ geoBox.south >= 0
        maxLat == m_maxLatitude
        limitedNorth ==
            IF isNorthPole THEN Max(geoBox.north, maxLat) ELSE Min(geoBox.north, -maxLat)
        limitedSouth ==
            IF isNorthPole THEN Max(geoBox.south, maxLat) ELSE Min(geoBox.south, -maxLat)
    IN  /\ PoleMaterialFor(geoBox) # Undefined
        /\ ~(limitedSouth >= limitedNorth)

\* createTileGeometry
createTileGeometry(r, t) ==
    IF CreatesPoleMesh(r.geoBox)
        THEN [r EXCEPT !.objects = Append(@, PoleMeshOf(t, PoleMaterialFor(r.geoBox)))]
        ELSE r

\* getTile: a new Tile for the key, with its pole geometry; the tile takes
\* the place of the one the model called t before
GetTile(t, geoBox) ==
    /\ Ran(t, "getTile", createTileGeometry(NewTile(geoBox), t),
           IF CreatesPoleMesh(geoBox) THEN <<Ev("g", "dispose")>> ELSE <<>>,
           <<>>)
    /\ granted' = granted \ {t}
    /\ UNCHANGED <<feature, frameNumber, delivered, poleMaterials, priority, geometryLoader>>

\* MapView asks whether the key of tile t is to be rendered at a zoom level;
\* ret holds the zoom level asked about and the answer
ShouldRender(t, zoomLevel) ==
    /\ Ran(t, "shouldRender", tile[t], <<>>,
           <<[zoomLevel |-> zoomLevel, returned |-> shouldRender(zoomLevel, tile[t].geoBox)]>>)
    /\ UNCHANGED <<feature, frameNumber, delivered, poleMaterials, priority, geometryLoader, granted>>

(***************************************************************************)
(* OmvTileInfoEmitter.processPolygonFeature.  A feature is the geometry    *)
(* (polygons, each a list of outlines with so many positions), the list of *)
(* techniques, undefined entries included, and the feature id; with it     *)
(* goes the winding that class Ring finds for a contour of so many         *)
(* positions.  The writer is the emitter's ExtendedTileInfoWriter.         *)
(***************************************************************************)
MaxTechniques == 2

MaxPolygons == 2

MaxRings == 2

SeqsUpTo(S, n) == UNION {[1..k -> S] : k \in 0..n}

PositionCounts == {3, 4}

Outlines == [positions : PositionCounts]

PolygonGeometries == [rings : SeqsUpTo(Outlines, MaxRings)]

Techniques == {"fill"}

Features ==
    [ geometry : SeqsUpTo(PolygonGeometries, MaxPolygons),
      techniques : SeqsUpTo(Techniques \cup {Undefined}, MaxTechniques),
      featureId : {"featureId"},
      winding : [PositionCounts -> BOOLEAN] ]

NoFeature == <<>>

TileInfoWriter == "m_tileInfoWriter"

PolygonGroup == "m_tileInfo.polygonGroup"

\* new Ring(3, contour): the contour that processPolygonFeature fills with
\* three zeros for every position, and the winding Ring finds for it
NewRing(outline, winding) ==
    LET vertexStride == 3
        contour == [i \in 1..(vertexStride * outline.positions) |-> 0]
    IN  [vertexStride |-> vertexStride, contour |-> contour,
         winding |-> winding[Len(contour) \div vertexStride]]

\* ExtendedTileInfoWriter.addTechnique: the index it returns
AddTechniqueIndex(technique) == <<"index", technique>>

\* processPolygonFeature: the loop over the techniques
AddFeatures(techniques, featureId) ==
    Flatten([i \in DOMAIN techniques |->
        IF techniques[i] = Undefined THEN <<>>
        ELSE << EvRet(TileInfoWriter, "addTechnique", techniques[i],
                      AddTechniqueIndex(techniques[i])),
                EvArg(TileInfoWriter, "addFeature",
                      [group |-> PolygonGroup, technique |-> techniques[i],
                       featureId |-> featureId,
                       infoTileTechniqueIndex |-> AddTechniqueIndex(techniques[i]),
                       isPolygonGroup |-> TRUE]) >>])

\* the loop over the rings that takes only the first ring for an outer ring
AddRingPoints_FirstOnly(rings) ==
    IF Len(rings) = 0 THEN <<>>
    ELSE [i \in DOMAIN rings |->
             EvArg(TileInfoWriter, "addRingPoints",
                   [group |-> PolygonGroup, contour |-> rings[i].contour,
                    isOuterRing |-> i = 1])]

\* processPolygonFeature: the loop over the rings of one polygon
AddRingPoints(rings) ==
    IF Len(rings) = 0 THEN <<>>
    ELSE LET outerRingWinding == rings[1].winding
         IN  [i \in DOMAIN rings |->
                 EvArg(TileInfoWriter, "addRingPoints",
                       [group |-> PolygonGroup, contour |-> rings[i].contour,
                        isOuterRing |-> rings[i].winding = outerRingWinding])]

\* processPolygonFeature: the calls it makes on the writer, in order; none
\* when it throws
processPolygonFeature(geometry, techniques, featureId, winding) ==
    IF Len(techniques) = 0 THEN <<>>
    ELSE LET polygons ==
                 [p \in DOMAIN geometry |->
                     [i \in DOMAIN geometry[p].rings |->
                         NewRing(geometry[p].rings[i], winding)]]
         IN  AddFeatures(techniques, featureId)
               \o Flatten([p \in DOMAIN polygons |-> AddRingPoints(polygons[p])])

\* the decoder hands the feature to the emitter, once
ProcessPolygonFeature ==
    /\ feature # NoFeature
    /\ op.name = "new"
    /\ op' = [name |-> "processPolygonFeature", tile |-> "-", after |-> op.name]
    /\ calls' = processPolygonFeature(feature.geometry, feature.techniques,
                                       feature.featureId, feature.winding)
    /\ ret' = IF Len(feature.techniques) = 0 THEN <<[thrown |-> "Error"]>> ELSE <<>>
    /\ UNCHANGED <<feature, frameNumber, tile, loaderState, delivered, poleMaterials,
                   priority, geometryLoader, granted>>

(***************************************************************************)
(* OmvTileInfoEmitter.processPointFeature and processLineFeature.  A point *)
(* feature has positions, a line feature has polylines of so many          *)
(* positions; with the feature go what env.lookup finds for segmentId,     *)
(* startOffset and endOffset (<<>> for undefined) and the emitter's        *)
(* m_gatherRoadSegments.                                                   *)
(***************************************************************************)
MaxPositions == 2

MaxPolylines == 2

PointPositions == {"pos"}

Polylines == [positions : {2, 3}]

FeatureTechniques == {"technique1", "technique2"}

PointFeatures ==
    [ kind : {"point"},
      geometry : SeqsUpTo(PointPositions, MaxPositions),
      techniques : SeqsUpTo(FeatureTechniques \cup {Undefined}, MaxTechniques),
      featureId : {"featureId"} ]

LineFeatures ==
    [ kind : {"line"},
      geometry : SeqsUpTo(Polylines, MaxPolylines),
      techniques : SeqsUpTo(FeatureTechniques \cup {Undefined}, MaxTechniques),
      featureId : {"featureId"},
      segmentId : {<<>>, <<0>>},
      startOffset : {<<>>, <<1>>},
      endOffset : {<<>>, <<0>>},
      m_gatherRoadSegments : BOOLEAN ]

PointGroup == "m_tileInfo.pointGroup"

LineGroup == "m_tileInfo.lineGroup"

\* the addFeature call of processPointFeature and processLineFeature
AddFeatureCall(group, technique, featureId) ==
    EvArg(TileInfoWriter, "addFeature",
          [group |-> group, technique |-> technique, featureId |-> featureId,
           infoTileTechniqueIndex |-> AddTechniqueIndex(technique),
           isPolygonGroup |-> FALSE])

\* processPointFeature: the calls it makes on the writer, in order
processPointFeature(geometry, techniques, featureId) ==
    Flatten([i \in DOMAIN techniques |->
        IF techniques[i] = Undefined THEN <<>>
        ELSE <<EvRet(TileInfoWriter, "addTechnique", techniques[i],
                     AddTechniqueIndex(techniques[i]))>>
               \o Flatten([k \in DOMAIN geometry |->
                      << AddFeatureCall(PointGroup, techniques[i], featureId),
                         EvArg(TileInfoWriter, "addFeaturePoint",
                               [group |-> PointGroup, x |-> 0, y |-> 0]) >>])])

\* processLineFeature: the line of a polyline, two zeros for every position
LineOf(polyline) == [i \in 1..(2 * polyline.positions) |-> 0]

\* processLineFeature: the loop over the techniques
AddLineFeatures(geometry, techniques, featureId) ==
    LET lines == [k \in DOMAIN geometry |-> LineOf(geometry[k])]
    IN  Flatten([i \in DOMAIN techniques |->
            IF techniques[i] = Undefined THEN <<>>
            ELSE <<EvRet(TileInfoWriter, "addTechnique", techniques[i],
                         AddTechniqueIndex(techniques[i]))>>
                   \o Flatten([k \in DOMAIN lines |->
                          << AddFeatureCall(LineGroup, techniques[i], featureId),
                             EvArg(TileInfoWriter, "addFeaturePoints",
                                   [group |-> LineGroup, points |-> lines[k]]) >>])])

\* the road segments added whether the emitter gathers them or not
AddRoadSegments_Always(gatherRoadSegments, segmentId, startOffset, endOffset) ==
    IF segmentId # <<>>
        THEN <<EvArg(TileInfoWriter, "addRoadSegments",
                     [group |-> LineGroup, segmentId |-> segmentId[1],
                      startOffset |-> IF startOffset # <<>> THEN startOffset[1] ELSE 0,
                      endOffset |-> IF endOffset # <<>> THEN endOffset[1] ELSE 1])>>
        ELSE <<>>

\* processLineFeature: the road segments
AddRoadSegments(gatherRoadSegments, segmentId, startOffset, endOffset) ==
    IF gatherRoadSegments /\ segmentId # <<>>
        THEN <<EvArg(TileInfoWriter, "addRoadSegments",
                     [group |-> LineGroup, segmentId |-> segmentId[1],
                      startOffset |-> IF startOffset # <<>> THEN startOffset[1] ELSE 0,
                      endOffset |-> IF endOffset # <<>> THEN endOffset[1] ELSE 1])>>
        ELSE <<>>

\* processLineFeature: the calls it makes on the writer, in order
processLineFeature(f) ==
    AddLineFeatures(f.geometry, f.techniques, f.featureId)
      \o AddRoadSegments(f.m_gatherRoadSegments, f.segmentId, f.startOffset, f.endOffset)

\* the decoder hands a point feature to the emitter, once
ProcessPointFeature ==
    /\ feature # NoFeature
    /\ feature.kind = "point"
    /\ op.name = "new"
    /\ op' = [name |-> "processPointFeature", tile |-> "-", after |-> op.name]
    /\ calls' = processPointFeature(feature.geometry, feature.techniques, feature.featureId)
    /\ ret' = <<>>
    /\ UNCHANGED <<feature, frameNumber, tile, loaderState, delivered, poleMaterials,
                   priority, geometryLoader, granted>>

\* the decoder hands a line feature to the emitter, once
ProcessLineFeature ==
    /\ feature # NoFeature
    /\ feature.kind = "line"
    /\ op.name = "new"
    /\ op' = [name |-> "processLineFeature", tile |-> "-", after |-> op.name]
    /\ calls' = processLineFeature(feature)
    /\ ret' = <<>>
    /\ UNCHANGED <<feature, frameNumber, tile, loaderState, delivered, poleMaterials,
                   priority, geometryLoader, granted>>

(***************************************************************************)
(* The life of one tile: frames, visibility, the loaders, decoded content, *)
(* objects, clear and dispose.                                             *)
(***************************************************************************)
DefaultGeoBox == [south |-> 0, north |-> 45, level |-> 2]

Init ==
    /\ frameNumber = 0
    /\ feature = NoFeature
    /\ tile = [t \in Tiles |-> NewTile(DefaultGeoBox)]
    /\ loaderState = [t \in Tiles |-> "Initialized"]
    /\ delivered = [t \in Tiles |-> FALSE]
    /\ poleMaterials = [north |-> Undefined, south |-> Undefined]
    /\ priority = [e \in TextElements |-> 1]
    /\ geometryLoader = [t \in Tiles |-> NewGeometryLoader]
    /\ granted = {}
    /\ op = [name |-> "new", tile |-> "-", after |-> "-"]
    /\ calls = <<>>
    /\ ret = <<>>

Next ==
    \/ SetIsVisible("A", TRUE)
    \/ \E x \in {Undefined, LoaderOf("A")} : SetTileLoader("A", x)
    \/ \E x \in {Undefined, GeometryLoaderOf("A")} : SetTileGeometryLoader("A", x)
    \/ \E area \in {0, 1} : SetVisibleArea("A", area)
    \/ LoaderAdvance("A")
    \/ LoaderFail("A")
    \/ \E d \in {"plain", "boxed"}, s \in BOOLEAN : Deliver("A", d, s)
    \/ \E d \in {"plain", "boxed"}, s \in BOOLEAN : SetDecodedTile("A", d, s)
    \/ RemoveDecodedTile("A")
    \/ PushObject("A", MeshA)
    \/ Clear("A")
    \/ Dispose("A")

Spec == Init /\ [][Next]_vars

(***************************************************************************)
(* Frames and visibility of one tile.                                      *)
(***************************************************************************)
NextFrames ==
    \/ AdvanceFrame
    \/ \E visible \in BOOLEAN : SetIsVisible("A", visible)
    \/ \E d \in {"plain", "withInfo"} : SetDecodedTile("A", d, FALSE)
    \/ \E record \in RoadRecords : PrepareTileInfo("A", record)
    \/ PushObject("A", MeshA)
    \/ Dispose("A")

SpecFrames == Init /\ [][NextFrames]_vars

(***************************************************************************)
(* The resource ledger of one tile.                                        *)
(***************************************************************************)
NextLedger ==
    \/ SetIsVisible("A", TRUE)
    \/ SetDecodedTile("A", "withInfo", FALSE)
    \/ RemoveDecodedTile("A")
    \/ ForceHasGeometry("A", TRUE, FALSE)
    \/ PrepareTileInfo("A", [n |-> 2, ids |-> TRUE, objInfos |-> FALSE])
    \/ PushObject("A", Group)
    \/ AddUserTextElement("A", "label1")
    \/ AddTextElement("A", "label2")
    \/ GetResourceInfo("A")
    \/ InvalidateResourceInfo("A")
    \/ Clear("A")
    \/ Dispose("A")

SpecLedger == Init /\ [][NextLedger]_vars

(***************************************************************************)
(* Two tiles whose meshes have materials with the same texture.            *)
(***************************************************************************)
NextTextures ==
    \/ PushObject("A", MeshA)
    \/ PushObject("B", MeshB)
    \/ \E t \in Tiles, texture \in Textures : AddOwnedTexture(t, texture)
    \/ \E t \in Tiles : Clear(t)
    \/ \E t \in Tiles : Dispose(t)

SpecTextures == Init /\ [][NextTextures]_vars

(***************************************************************************)
(* Two tiles of the PolarTileDataSource, whose meshes share the pole       *)
(* materials that setStyleSet made.                                        *)
(***************************************************************************)
InitPolar ==
    /\ frameNumber = 0
    /\ feature = NoFeature
    /\ tile = [t \in Tiles |-> NewTile(DefaultGeoBox)]
    /\ loaderState = [t \in Tiles |-> "Initialized"]
    /\ delivered = [t \in Tiles |-> FALSE]
    /\ poleMaterials \in [north : {Undefined, "northPoleMaterial"},
                          south : {Undefined, "southPoleMaterial"}]
    /\ priority = [e \in TextElements |-> 1]
    /\ geometryLoader = [t \in Tiles |-> NewGeometryLoader]
    /\ granted = {}
    /\ op = [name |-> "new", tile |-> "-", after |-> "-"]
    /\ calls = <<>>
    /\ ret = <<>>

NextPolar ==
    \/ \E t \in Tiles, geoBox \in GeoBoxes : GetTile(t, geoBox)
    \/ \E t \in Tiles : Clear(t)
    \/ \E t \in Tiles : Dispose(t)

SpecPolar == InitPolar /\ [][NextPolar]_vars

(***************************************************************************)
(* The geometry of one tile: its objects, the forced value of hasGeometry  *)
(* and the geometry loader.                                                *)
(***************************************************************************)
NextGeometry ==
    \/ PushObject("A", MeshA)
    \/ Clear("A")
    \/ \E value \in BOOLEAN : ForceHasGeometry("A", value, FALSE)
    \/ \E x \in {Undefined, GeometryLoaderOf("A")} : SetTileGeometryLoader("A", x)
    \/ GeometryLoaderAdvance("A")
    \/ GetHasGeometry("A")
    \/ GetBasicGeometryLoaded("A")
    \/ GetAllGeometryLoaded("A")
    \/ Dispose("A")

SpecGeometry == Init /\ [][NextGeometry]_vars

(***************************************************************************)
(* The labels of one tile.  The placement pass takes the dirty flag back.  *)
(***************************************************************************)
NextLabels ==
    \/ \E e \in TextElements : AddTextElementUpTo("A", e, MaxLabelCopies)
    \/ \E e \in TextElements : RemoveTextElement("A", e)
    \/ AddUserTextElementUpTo("A", "label1", MaxLabelCopies)
    \/ \E e \in TextElements : RemoveUserTextElement("A", e)
    \/ \E p \in Priorities : SetPriority("label1", p)
    \/ SetTextElementsChanged("A", FALSE)
    \/ Clear("A")

SpecLabels == Init /\ [][NextLabels]_vars

(***************************************************************************)
(* clear() on one tile.  The tile starts as the calls a data source makes  *)
(* on a new tile leave it: with or without a loader, a geometry loader, a  *)
(* decoded tile, a forced hasGeometry, an owned texture, and visible with  *)
(* its road data or not.                                                   *)
(***************************************************************************)
Setups == {"tileLoader", "tileGeometryLoader", "setDecodedTile", "forceHasGeometry",
           "addOwnedTexture", "prepareTileInfo"}

\* tile t after the calls in `done`, made on a new tile at frame 0
SetUpTile(t, done) ==
    LET r1 == NewTile(DefaultGeoBox)
        r2 == IF "tileLoader" \in done
                  THEN [r1 EXCEPT !.m_tileLoader = LoaderOf(t)] ELSE r1
        r3 == IF "tileGeometryLoader" \in done
                  THEN [r2 EXCEPT !.m_tileGeometryLoader = GeometryLoaderOf(t)] ELSE r2
        r4 == IF "setDecodedTile" \in done THEN SetDecodedTileTile(r3, "withInfo") ELSE r3
        r5 == IF "forceHasGeometry" \in done THEN ForceHasGeometryTile(r4, FALSE) ELSE r4
        r6 == IF "addOwnedTexture" \in done
                  THEN AddOwnedTextureTile(r5, "sharedTexture") ELSE r5
        r7 == IF "prepareTileInfo" \in done
                  THEN PrepareTileInfoTile(SetVisibleTile(r6, TRUE),
                                           [n |-> 1, ids |-> FALSE, objInfos |-> TRUE])
                  ELSE r6
    IN  r7

InitClear ==
    /\ frameNumber = 0
    /\ feature = NoFeature
    /\ \E done \in SUBSET Setups :
           /\ tile = [t \in Tiles |->
                         IF t = "A" THEN SetUpTile(t, done) ELSE NewTile(DefaultGeoBox)]
           /\ granted = IF "prepareTileInfo" \in done THEN {"A"} ELSE {}
    /\ loaderState = [t \in Tiles |-> "Initialized"]
    /\ delivered = [t \in Tiles |-> FALSE]
    /\ poleMaterials = [north |-> Undefined, south |-> Undefined]
    /\ priority = [e \in TextElements |-> 1]
    /\ geometryLoader = [t \in Tiles |-> NewGeometryLoader]
    /\ op = [name |-> "new", tile |-> "-", after |-> "-"]
    /\ calls = <<>>
    /\ ret = <<>>

NextClear ==
    \/ PushObject("A", MeshA)
    \/ AddTextElement("A", "label2")
    \/ AddUserTextElement("A", "label1")
    \/ GetResourceInfo("A")
    \/ Clear("A")

SpecClear == InitClear /\ [][NextClear]_vars

(***************************************************************************)
(* The cached ledger of one tile and its two readers.                      *)
(***************************************************************************)
NextCache ==
    \/ PushObject("A", MeshA)
    \/ AddUserTextElement("A", "label1")
    \/ SetDecodedTile("A", "withInfo", FALSE)
    \/ Clear("A")
    \/ InvalidateResourceInfo("A")
    \/ GetResourceInfo("A")
    \/ MemoryUsage("A")

SpecCache == Init /\ [][NextCache]_vars

(***************************************************************************)
(* What the ledger counts.  The tile starts without a decoded tile, with   *)
(* one, or visible with a decoded tile that has a tileInfo and with the    *)
(* road data that prepareTileInfo() stored.                                *)
(***************************************************************************)
InitSizes ==
    /\ frameNumber = 0
    /\ feature = NoFeature
    /\ \E d \in {Undefined, "plain", "withInfo"} :
       \E road \in {<<>>} \cup {<<record>> : record \in RoadRecords} :
           LET r1 == NewTile(DefaultGeoBox)
               r2 == IF d = Undefined THEN r1 ELSE SetDecodedTileTile(r1, d)
               r3 == IF road = <<>> THEN r2
                     ELSE PrepareTileInfoTile(SetVisibleTile(r2, TRUE), road[1])
           IN  /\ road # <<>> => d = "withInfo"
               /\ tile = [t \in Tiles |-> IF t = "A" THEN r3 ELSE r1]
               /\ granted = IF road = <<>> THEN {} ELSE {"A"}
    /\ loaderState = [t \in Tiles |-> "Initialized"]
    /\ delivered = [t \in Tiles |-> FALSE]
    /\ poleMaterials = [north |-> Undefined, south |-> Undefined]
    /\ priority = [e \in TextElements |-> 1]
    /\ geometryLoader = [t \in Tiles |-> NewGeometryLoader]
    /\ op = [name |-> "new", tile |-> "-", after |-> "-"]
    /\ calls = <<>>
    /\ ret = <<>>

NextSizes ==
    \/ PushObject("A", MeshA)
    \/ AddTextElementUpTo("A", "label1", MaxLabelCopies)
    \/ \E p \in Priorities : SetPriority("label1", p)
    \/ AddUserTextElement("A", "label2")
    \/ InvalidateResourceInfo("A")
    \/ GetResourceInfo("A")

SpecSizes == InitSizes /\ [][NextSizes]_vars

(***************************************************************************)
(* One tile and the loader its data source made for it.                    *)
(***************************************************************************)
NextLoader ==
    \/ \E x \in {Undefined, LoaderOf("A")} : SetTileLoader("A", x)
    \/ \E area \in {0, 1} : SetVisibleArea("A", area)
    \/ LoaderAdvance("A")
    \/ SetIsVisible("A", FALSE)
    \/ SetDecodedTile("A", "plain", FALSE)
    \/ RemoveDecodedTile("A")
    \/ \E value \in BOOLEAN : ForceHasGeometry("A", value, FALSE)
    \/ Clear("A")
    \/ Dispose("A")

SpecLoader == Init /\ [][NextLoader]_vars

(***************************************************************************)
(* Textures and materials of one tile, of class Tile or of a subclass that *)
(* keeps the materials of one of the meshes.                               *)
(***************************************************************************)
InitPolicy ==
    /\ frameNumber = 0
    /\ feature = NoFeature
    /\ \E kept \in {{}, {MeshB.id}} :
           tile = [t \in Tiles |->
                      [NewTile(DefaultGeoBox) EXCEPT
                          !.keepsMaterialOf = IF t = "A" THEN kept ELSE {}]]
    /\ loaderState = [t \in Tiles |-> "Initialized"]
    /\ delivered = [t \in Tiles |-> FALSE]
    /\ poleMaterials = [north |-> Undefined, south |-> Undefined]
    /\ priority = [e \in TextElements |-> 1]
    /\ geometryLoader = [t \in Tiles |-> NewGeometryLoader]
    /\ granted = {}
    /\ op = [name |-> "new", tile |-> "-", after |-> "-"]
    /\ calls = <<>>
    /\ ret = <<>>

NextPolicy ==
    \/ \E object \in {MeshA, MeshB} : PushObject("A", object)
    \/ \E texture \in Textures : AddOwnedTexture("A", texture)
    \/ Clear("A")

SpecPolicy == InitPolicy /\ [][NextPolicy]_vars

(***************************************************************************)
(* The forced value of hasGeometry, with the decoded tile and the ledger   *)
(* that forceHasGeometry(true) touches.                                    *)
(***************************************************************************)
NextForce ==
    \/ PushObject("A", MeshA)
    \/ \E d \in {"plain", "withInfo"} : SetDecodedTile("A", d, FALSE)
    \/ RemoveDecodedTile("A")
    \/ GetResourceInfo("A")
    \/ \E value \in BOOLEAN : ForceHasGeometry("A", value, FALSE)
    \/ GetHasGeometry("A")
    \/ Clear("A")
    \/ Dispose("A")

SpecForce == Init /\ [][NextForce]_vars

(***************************************************************************)
(* The life of one tile up to and after dispose().                         *)
(***************************************************************************)
NextDisposed ==
    \/ \E visible \in BOOLEAN : SetIsVisible("A", visible)
    \/ \E x \in {Undefined, LoaderOf("A")} : SetTileLoader("A", x)
    \/ \E x \in {Undefined, GeometryLoaderOf("A")} : SetTileGeometryLoader("A", x)
    \/ SetDecodedTile("A", "plain", FALSE)
    \/ AddTextElement("A", "label1")
    \/ RemoveTextElement("A", "label1")
    \/ AddUserTextElement("A", "label2")
    \/ RemoveUserTextElement("A", "label2")
    \/ GetDisposed("A")
    \/ Clear("A")
    \/ Dispose("A")

SpecDisposed == Init /\ [][NextDisposed]_vars

(***************************************************************************)
(* The tiles PolarTileDataSource.getTile makes for the keys MapView asks   *)
(* for, and what their geometry getters return.                            *)
(***************************************************************************)
NextPoles ==
    \/ \E geoBox \in GeoBoxes : GetTile("A", geoBox)
    \/ \E zoomLevel \in ZoomLevels : ShouldRender("A", zoomLevel)
    \/ PushObject("A", MeshA)
    \/ SetTileLoader("A", LoaderOf("A"))
    \/ GetHasGeometry("A")
    \/ GetAllGeometryLoaded("A")

SpecPoles == InitPolar /\ [][NextPoles]_vars

(***************************************************************************)
(* The tile info emitter of the OMV decoder with one polygon feature.      *)
(***************************************************************************)
InitOmv ==
    /\ frameNumber = 0
    /\ feature \in Features
    /\ tile = [t \in Tiles |-> NewTile(DefaultGeoBox)]
    /\ loaderState = [t \in Tiles |-> "Initialized"]
    /\ delivered = [t \in Tiles |-> FALSE]
    /\ poleMaterials = [north |-> Undefined, south |-> Undefined]
    /\ priority = [e \in TextElements |-> 1]
    /\ geometryLoader = [t \in Tiles |-> NewGeometryLoader]
    /\ granted = {}
    /\ op = [name |-> "new", tile |-> "-", after |-> "-"]
    /\ calls = <<>>
    /\ ret = <<>>

NextOmv == ProcessPolygonFeature

SpecOmv == InitOmv /\ [][NextOmv]_vars

(***************************************************************************)
(* The tile info emitter of the OMV decoder with one point feature or one  *)
(* line feature.                                                           *)
(***************************************************************************)
InitOmvFeature ==
    /\ frameNumber = 0
    /\ \/ feature \in PointFeatures
       \/ feature \in LineFeatures
    /\ tile = [t \in Tiles |-> NewTile(DefaultGeoBox)]
    /\ loaderState = [t \in Tiles |-> "Initialized"]
    /\ delivered = [t \in Tiles |-> FALSE]
    /\ poleMaterials = [north |-> Undefined, south |-> Undefined]
    /\ priority = [e \in TextElements |-> 1]
    /\ geometryLoader = [t \in Tiles |-> NewGeometryLoader]
    /\ granted = {}
    /\ op = [name |-> "new", tile |-> "-", after |-> "-"]
    /\ calls = <<>>
    /\ ret = <<>>

NextOmvFeature ==
    \/ ProcessPointFeature
    \/ ProcessLineFeature

SpecOmvFeature == InitOmvFeature /\ [][NextOmvFeature]_vars

(***************************************************************************)
(* Properties.                                                             *)
(***************************************************************************)
\* what getResourceInfo() returns on a tile with the fields r
ResourceInfoOf(r) == FillResourceInfo(r).m_resourceInfo[1]

ZeroResourceInfo ==
    [heapSize |-> 0, gpuSize |-> 0, num3dObjects |-> 0,
     numTextElements |-> 0, numUserTextElements |-> 0]

\* the textures on the materials of the objects reached from `objects`
ReachedTextures(objects) ==
    UNION {Range(MaterialTextures(m)) : m \in ReachedMaterials(objects)}

\* C1: a tile last requested at frame f >= 0 reads visible while the frame
\* number is f or f + 1, and invisible at every frame number from f + 2 on.
C1_VisibleForOneMoreFrame ==
    \A t \in Tiles, f \in 0..MaxFrame :
        tile[t].frameNumLastRequested = f =>
            /\ frameNumber \in {f, f + 1} => isVisible(tile[t])
            /\ frameNumber >= f + 2 => ~isVisible(tile[t])

\* a tile requested at frame 1 and not since, seen at frame 3
C1_Witness ==
    /\ tile["A"].frameNumLastRequested = 1
    /\ frameNumber = 3
    /\ ~tile["A"].m_disposed
    /\ ~isVisible(tile["A"])

\* C2: dispose() on a tile that is disposed changes nothing of the tile and
\* of the loaders, and calls nothing: no cancel(), no dispose() of the
\* geometry loader, of a geometry, a material or a texture.
C2_DisposeTwiceIsDisposeOnce ==
    [][\A t \in Tiles :
          (tile[t].m_disposed /\ op'.name = "dispose" /\ op'.tile = t) =>
              /\ tile' = tile
              /\ loaderState' = loaderState
              /\ calls' = <<>>]_vars

\* a second dispose() ran on a disposed tile that had been given a loader,
\* a geometry loader and an object again
C2_Witness ==
    /\ op.name = "dispose" /\ op.tile = "A"
    /\ calls = <<>>
    /\ tile["A"].m_disposed
    /\ tile["A"].m_tileLoader # Undefined
    /\ tile["A"].m_tileGeometryLoader # Undefined
    /\ tile["A"].objects # <<>>

\* C3: while a tile is disposed its objects, its three label collections
\* and its road intersection data are empty, and getResourceInfo() reports
\* zero sizes and zero counts.
C3_DisposedTileIsEmpty ==
    \A t \in Tiles :
        tile[t].m_disposed =>
            /\ tile[t].objects = <<>>
            /\ tile[t].m_textElementGroups = {}
            /\ tile[t].m_placedTextElements = {}
            /\ tile[t].m_userTextElements = <<>>
            /\ tile[t].roadIntersectionData = <<>>
            /\ ResourceInfoOf(tile[t]) = ZeroResourceInfo

\* C4: decoded content handed to a tile after its dispose(), by the loader's
\* completion or by a call of setDecodedTile, leaves decodedTile as it was.
C4_NoDecodedTileAfterDispose ==
    [][\A t \in Tiles :
          ( /\ tile[t].m_disposed
            /\ op'.tile = t
            /\ op'.name \in {"deliver", "setDecodedTile"} ) =>
              tile'[t].m_decodedTile = tile[t].m_decodedTile]_vars

\* C5: clear() and a first dispose() of a tile dispose every texture the
\* tile registered that is on a material of its objects, and never a
\* texture it did not register, whatever the other tile did before.
C5_OnlyTheOwnerDisposesATexture ==
    [][\A t \in Tiles, texture \in Textures :
          ( /\ op'.tile = t
            /\ \/ op'.name = "clear"
               \/ op'.name = "dispose" /\ ~tile[t].m_disposed ) =>
              /\ texture \notin tile[t].m_ownedTextures =>
                     Count(Ev(texture, "dispose"), calls') = 0
              /\ ( /\ texture \in tile[t].m_ownedTextures
                   /\ texture \in ReachedTextures(tile[t].objects) ) =>
                     Count(Ev(texture, "dispose"), calls') >= 1]_vars

\* tile A, which registered the shared texture, was disposed and disposed
\* it, while tile B, which did not register it, has it on its mesh
C5_Witness ==
    /\ op.name = "dispose" /\ op.tile = "A"
    /\ Count(Ev("sharedTexture", "dispose"), calls) >= 1
    /\ "sharedTexture" \in tile["A"].m_ownedTextures
    /\ "sharedTexture" \notin tile["B"].m_ownedTextures
    /\ "sharedTexture" \in ReachedTextures(tile["B"].objects)

\* C6: clear() and dispose() of a tile dispose no material that the objects
\* of another tile have too.
C6_SharedMaterialSurvives ==
    [][\A t \in Tiles, u \in Tiles :
          (t # u /\ op'.tile = t /\ op'.name \in {"clear", "dispose"}) =>
              \A material \in ReachedMaterials(tile[u].objects) :
                  Count(Ev(material, "dispose"), calls') = 0]_vars

\* C7: getResourceInfo() right after invalidateResourceInfo() returns the
\* ledger of the tile as it is at that call.
C7_InvalidateThenGetIsFresh ==
    [][\A t \in Tiles :
          ( /\ op.name = "invalidateResourceInfo" /\ op.tile = t
            /\ op'.name = "getResourceInfo" /\ op'.tile = t ) =>
              ret' = <<computeResourceInfo(tile[t])>>]_vars

\* getResourceInfo() ran right after invalidateResourceInfo() and computed
\* the ledger anew, of a tile with objects
C7_Witness ==
    /\ op.name = "getResourceInfo" /\ op.tile = "A"
    /\ op.after = "invalidateResourceInfo"
    /\ calls = <<Ev("A", "computeResourceInfo")>>
    /\ tile["A"].objects # <<>>
    /\ ret = <<computeResourceInfo(tile["A"])>>
    /\ ret[1].heapSize > 0

\* the cached ledger, if there is one, is that of the tile as it is
LedgerNotStale(r) ==
    r.m_resourceInfo = <<>> \/ r.m_resourceInfo[1] = computeResourceInfo(r)

\* C8: setDecodedTile, removeDecodedTile, forceHasGeometry, clear and
\* prepareTileInfo never leave a stale ledger behind: on a tile whose cached
\* ledger is not stale, the ledger is not stale after them.
C8_MutatorsKeepLedgerFresh ==
    [][\A t \in Tiles :
          ( /\ LedgerNotStale(tile[t])
            /\ op'.tile = t
            /\ op'.name \in {"setDecodedTile", "removeDecodedTile", "forceHasGeometry",
                             "clear", "prepareTileInfo"} ) =>
              LedgerNotStale(tile'[t])]_vars

\* C9: the first dispose() of a tile with a loader and a geometry loader
\* calls cancel() once and the geometry loader's dispose() once, both before
\* clear(), and leaves the tile without loaders, disposed and with
\* frameNumLastRequested 0.
C9_FirstDispose ==
    [][\A t \in Tiles :
          ( /\ op'.name = "dispose" /\ op'.tile = t
            /\ ~tile[t].m_disposed
            /\ tile[t].m_tileLoader # Undefined
            /\ tile[t].m_tileGeometryLoader # Undefined ) =>
              LET cancel == Ev(tile[t].m_tileLoader, "cancel")
                  disposeLoader == Ev(tile[t].m_tileGeometryLoader, "dispose")
                  clear == Ev(t, "clear")
              IN  /\ Count(cancel, calls') = 1
                  /\ Count(disposeLoader, calls') = 1
                  /\ Count(clear, calls') = 1
                  /\ IndexOf(calls', cancel) < IndexOf(calls', clear)
                  /\ IndexOf(calls', disposeLoader) < IndexOf(calls', clear)
                  /\ tile'[t].m_tileLoader = Undefined
                  /\ tile'[t].m_tileGeometryLoader = Undefined
                  /\ tile'[t].m_disposed
                  /\ tile'[t].frameNumLastRequested = 0]_vars

\* dispose() canceled a loader that was still loading, disposed the
\* geometry loader and then, in clear(), the geometry of an object
C9_Witness ==
    /\ op.name = "dispose" /\ op.tile = "A"
    /\ Count(Ev(LoaderOf("A"), "cancel"), calls) = 1
    /\ Count(Ev(GeometryLoaderOf("A"), "dispose"), calls) = 1
    /\ Count(Ev("geometryA", "dispose"), calls) >= 1
    /\ loaderState["A"] = "Canceled"
    /\ tile["A"].m_disposed

\* C10: the first dispose() leaves a tile that reads invisible at the frame
\* number of that moment, and the tile reads invisible from then on, until
\* isVisible is set.
C10_DisposedTileIsInvisible ==
    [][\A t \in Tiles :
          /\ (op'.name = "dispose" /\ op'.tile = t /\ ~tile[t].m_disposed) =>
                 ~(isVisible(tile[t]))'
          /\ (tile[t].m_disposed /\ ~isVisible(tile[t]) /\ op'.name # "isVisible=") =>
                 ~(isVisible(tile[t]))']_vars

\* C11: isVisible = true leaves frameNumLastRequested at the frame number,
\* isVisible = false leaves it at -1, and right after isVisible = false the
\* tile reads invisible, at every frame number.
C11_SetVisibleStamps ==
    [][\A t \in Tiles, visible \in BOOLEAN :
          SetIsVisible(t, visible) =>
              /\ visible => tile'[t].frameNumLastRequested = frameNumber'
              /\ ~visible => /\ tile'[t].frameNumLastRequested = -1
                             /\ ~(isVisible(tile[t]))']_vars

\* the three getters that tell whether a tile has its geometry
GeometryGetters == {"hasGeometry", "basicGeometryLoaded", "allGeometryLoaded"}

\* C12: forceHasGeometry(true) on a tile without objects and without a
\* geometry loader makes hasGeometry, basicGeometryLoaded and
\* allGeometryLoaded true; no operation but forceHasGeometry takes the forced
\* value back, and while it is there the three getters return true on a tile
\* without a geometry loader, whatever its objects are.
C12_ForcedGeometryStays ==
    [][\A t \in Tiles :
          /\ ( /\ \E s \in BOOLEAN : ForceHasGeometry(t, TRUE, s)
               /\ tile[t].m_tileGeometryLoader = Undefined ) =>
                  /\ hasGeometry(tile'[t])
                  /\ (basicGeometryLoaded(tile[t]))'
                  /\ (allGeometryLoaded(tile[t]))'
          /\ ( /\ tile[t].m_forceHasGeometry = "true"
               /\ ~(op'.name = "forceHasGeometry" /\ op'.tile = t) ) =>
                  tile'[t].m_forceHasGeometry = "true"
          /\ ( /\ tile[t].m_forceHasGeometry = "true"
               /\ tile[t].m_tileGeometryLoader = Undefined
               /\ op'.name \in GeometryGetters /\ op'.tile = t ) =>
                  ret' = <<TRUE>>]_vars

\* allGeometryLoaded returned true right after clear() on a tile that was
\* forced to have geometry, has no object and no geometry loader
C12_Witness ==
    /\ op.name = "allGeometryLoaded" /\ op.tile = "A" /\ op.after = "clear"
    /\ ret = <<TRUE>>
    /\ tile["A"].m_forceHasGeometry = "true"
    /\ tile["A"].objects = <<>>
    /\ tile["A"].m_tileGeometryLoader = Undefined

\* what basicGeometryLoaded (basic = TRUE) and allGeometryLoaded return on a
\* tile with a geometry loader: the loader's flag, or that it is finished
LoaderSays(r, basic) ==
    LET g == geometryLoader[TileOfGeometryLoader(r.m_tileGeometryLoader)]
    IN  (IF basic THEN g.basicGeometryLoaded ELSE g.allGeometryLoaded) \/ g.isFinished

\* C13: without a geometry loader basicGeometryLoaded and allGeometryLoaded
\* return whether the tile has at least one object; with a geometry loader
\* they return what the loader says, whatever the objects are.
C13_GeometryLoadedIsHasObjects ==
    [][\A t \in Tiles :
          (op'.name \in {"basicGeometryLoaded", "allGeometryLoaded"} /\ op'.tile = t) =>
              ret' = << IF tile[t].m_tileGeometryLoader = Undefined
                            THEN Len(tile[t].objects) # 0
                            ELSE LoaderSays(tile[t], op'.name = "basicGeometryLoaded") >>]_vars

\* C13, amended: without a geometry loader they return hasGeometry, which is
\* the forced value when forceHasGeometry was called and else whether the
\* tile has at least one object; with a geometry loader they return what the
\* loader says, whatever the objects and the forced value are.
C13_GeometryLoadedIsHasGeometry ==
    [][\A t \in Tiles :
          (op'.name \in {"basicGeometryLoaded", "allGeometryLoaded"} /\ op'.tile = t) =>
              ret' = << IF tile[t].m_tileGeometryLoader = Undefined
                            THEN IF tile[t].m_forceHasGeometry = Undefined
                                     THEN Len(tile[t].objects) # 0
                                     ELSE tile[t].m_forceHasGeometry = "true"
                            ELSE LoaderSays(tile[t], op'.name = "basicGeometryLoaded") >>]_vars

\* allGeometryLoaded returned false on a tile with an object that was forced
\* to have geometry, because its geometry loader has loaded the basic
\* geometry only
C13_Witness ==
    /\ op.name = "allGeometryLoaded" /\ op.tile = "A"
    /\ ret = <<FALSE>>
    /\ tile["A"].m_tileGeometryLoader = GeometryLoaderOf("A")
    /\ geometryLoader["A"].basicGeometryLoaded
    /\ tile["A"].objects # <<>>
    /\ tile["A"].m_forceHasGeometry = "true"

\* what a caller does to attach content or objects to a tile itself
CallerAttaches == {"setDecodedTile", "objects.push", "forceHasGeometry"}

\* C14: once the loader of a tile without decoded content and without
\* objects is Canceled or Failed, the loader stays so, decodedTile stays
\* undefined and hasGeometry stays false, through every step in which no
\* caller attaches content or objects itself.
C14_CanceledLoaderAttachesNothing ==
    [][\A t \in Tiles :
          ( /\ loaderState[t] \in {"Canceled", "Failed"}
            /\ tile[t].m_decodedTile = Undefined
            /\ tile[t].objects = <<>>
            /\ tile[t].m_forceHasGeometry = Undefined
            /\ ~(op'.name \in CallerAttaches /\ op'.tile = t) ) =>
              /\ loaderState'[t] = loaderState[t]
              /\ tile'[t].m_decodedTile = Undefined
              /\ tile'[t].objects = <<>>
              /\ ~hasGeometry(tile'[t])]_vars

\* dispose() canceled the loader while it was decoding, before anything was
\* delivered, and the tile has no decoded content and no geometry
C14_Witness ==
    /\ op.name = "dispose" /\ op.tile = "A" /\ op.after = "loader.advance"
    /\ loaderState["A"] = "Canceled"
    /\ ~delivered["A"]
    /\ tile["A"].m_decodedTile = Undefined
    /\ ~hasGeometry(tile["A"])

\* how often the element is in the groups of a GroupedPriorityList
Occurrences(groups, element) ==
    SumOver([g \in groups |-> Count(element, g.elements)], groups)

\* C15: removeTextElement of an element that is not in the group of its
\* present priority, and removeUserTextElement of an element that is not in
\* the user list, return false and change nothing of the tile; a removal
\* that finds the element returns true and removes one occurrence of it and
\* nothing else.
C15_RemoveOfAbsentLabel ==
    [][\A t \in Tiles, e \in TextElements :
          /\ RemoveTextElement(t, e) =>
                 LET groups == tile[t].m_textElementGroups
                     found == \E g \in groups :
                                  g.priority = priority[e] /\ Count(e, g.elements) >= 1
                 IN  IF found
                         THEN /\ ret' = <<TRUE>>
                              /\ \A x \in TextElements :
                                     Occurrences(tile'[t].m_textElementGroups, x)
                                         = Occurrences(groups, x) - (IF x = e THEN 1 ELSE 0)
                         ELSE /\ ret' = <<FALSE>>
                              /\ tile' = tile
          /\ RemoveUserTextElement(t, e) =>
                 LET list == tile[t].m_userTextElements
                 IN  IF Count(e, list) >= 1
                         THEN /\ ret' = <<TRUE>>
                              /\ \A x \in TextElements :
                                     Count(x, tile'[t].m_userTextElements)
                                         = Count(x, list) - (IF x = e THEN 1 ELSE 0)
                         ELSE /\ ret' = <<FALSE>>
                              /\ tile' = tile]_vars

\* removeTextElement returned false for an element that is in the tile, in
\* the group of the priority it had when it was added, and left it there
\* and the dirty flag down
C15_Witness ==
    /\ op.name = "removeTextElement" /\ op.tile = "A"
    /\ ret = <<FALSE>>
    /\ priority["label1"] = 2
    /\ \E g \in tile["A"].m_textElementGroups :
           g.priority = 1 /\ Count("label1", g.elements) >= 1
    /\ ~tile["A"].m_textElementsChanged

\* whether one of the label collections of the tile has an element
HasLabels(r) ==
    r.m_textElementGroups # {} \/ r.m_placedTextElements # {} \/ r.m_userTextElements # <<>>

\* C16: after addTextElement, addUserTextElement, a removal that returned
\* true and a clear() of a tile that had labels, textElementsChanged is true.
C16_LabelChangeSetsDirtyFlag ==
    [][\A t \in Tiles :
          ( /\ op'.tile = t
            /\ \/ op'.name \in {"addTextElement", "addUserTextElement"}
               \/ /\ op'.name \in {"removeTextElement", "removeUserTextElement"}
                  /\ ret' = <<TRUE>>
               \/ op'.name = "clear" /\ HasLabels(tile[t]) ) =>
              tile'[t].m_textElementsChanged]_vars

\* C17: setDecodedTile(D), called or run by the loader's completion, leaves
\* D as the tile's decoded tile, makes D's bounding box the tile's if D has
\* one and leaves the tile's bounding box as it is if D has none, so that a
\* box made from the geo box stays; no operation changes the geo box.
C17_BoundingBoxFromDecodedTile ==
    [][\A t \in Tiles :
          /\ tile'[t].geoBox = tile[t].geoBox
          /\ (op'.name \in {"setDecodedTile", "deliver"} /\ op'.tile = t) =>
                 LET d == tile'[t].m_decodedTile
                 IN  IF d = "boxed"
                         THEN tile'[t].boundingBox = [from |-> "decodedTile", box |-> d]
                         ELSE /\ tile'[t].boundingBox = tile[t].boundingBox
                              /\ tile[t].boundingBox.from = "geoBox" =>
                                     tile'[t].boundingBox = NewTile(tile[t].geoBox).boundingBox]_vars

\* setDecodedTile ran with a decoded tile without a bounding box on a tile
\* with an object, and the bounding box is the one made from the geo box
C17_Witness ==
    /\ op.name = "setDecodedTile" /\ op.tile = "A"
    /\ tile["A"].m_decodedTile = "plain"
    /\ tile["A"].objects # <<>>
    /\ tile["A"].boundingBox = [from |-> "geoBox", box |-> "projected"]

\* C18: when getResourceInfo() computes the ledger anew, the num3dObjects it
\* returns is the number of objects of the tile.
C18_Num3dObjectsIsObjectCount ==
    [][\A t \in Tiles :
          ( /\ op'.name = "getResourceInfo" /\ op'.tile = t
            /\ calls' = <<Ev(t, "computeResourceInfo")>> ) =>
              ret'[1].num3dObjects = Len(tile[t].objects)]_vars

\* C19: frameNumLastRequested is -1 only on a tile whose isVisible was never
\* set to true, or on a disposed tile.
C19_UnstampedOnlyBeforeGrant ==
    \A t \in Tiles :
        tile[t].frameNumLastRequested = -1 => (t \notin granted \/ tile[t].m_disposed)

\* C19, amended: frameNumLastRequested is -1 only on a tile whose isVisible
\* was never set, or was set to false last: it gets to be -1 only by a set
\* of isVisible, a set to true leaves the frame number, which is not -1, and
\* dispose() leaves 0.
C19_UnstampedOnlyBySetFalse ==
    [][\A t \in Tiles :
          /\ (tile'[t].frameNumLastRequested = -1 /\ tile[t].frameNumLastRequested # -1) =>
                 (op'.name = "isVisible=" /\ op'.tile = t /\ granted' = granted)
          /\ (op'.name = "isVisible=" /\ op'.tile = t /\ t \in granted' \ granted) =>
                 tile'[t].frameNumLastRequested = frameNumber'
          /\ SetIsVisible(t, TRUE) =>
                 (t \in granted' /\ tile'[t].frameNumLastRequested # -1)
          /\ (op'.name = "dispose" /\ op'.tile = t /\ ~tile[t].m_disposed) =>
                 tile'[t].frameNumLastRequested = 0]_vars

\* a tile that is not disposed and was visible at frame 1 has the stamp -1
\* at frame 2, after isVisible = false
C19_Witness ==
    /\ op.name = "isVisible=" /\ op.tile = "A"
    /\ "A" \in granted
    /\ ~tile["A"].m_disposed
    /\ tile["A"].frameNumLastRequested = -1
    /\ frameNumber = 2

\* C20: prepareTileInfo() on a tile that has a decoded tile with a tileInfo,
\* is not disposed and reads visible calls the pick handler's registerTile
\* once and stores what it returned in roadIntersectionData, changing
\* nothing else; on every other tile it calls nothing and changes nothing.
C20_PrepareTileInfo ==
    [][\A t \in Tiles :
          (op'.name = "prepareTileInfo" /\ op'.tile = t) =>
              IF /\ tile[t].m_decodedTile = "withInfo"
                 /\ ~tile[t].m_disposed
                 /\ isVisible(tile[t])
                  THEN /\ Len(calls') = 1
                       /\ calls'[1].target = "pickHandler"
                       /\ calls'[1].method = "registerTile"
                       /\ calls'[1].arg = t
                       /\ tile' = [tile EXCEPT
                                      ![t].roadIntersectionData = <<calls'[1].returned>>]
                  ELSE /\ calls' = <<>>
                       /\ tile' = tile]_vars

\* prepareTileInfo() stored a second record, other than the one the tile had
C20_Witness ==
    /\ op.name = "prepareTileInfo" /\ op.tile = "A" /\ op.after = "prepareTileInfo"
    /\ Len(calls) = 1
    /\ tile["A"].roadIntersectionData = <<calls[1].returned>>
    /\ calls[1].returned.n = 1
    /\ frameNumber = 2

\* C21: clear() leaves the tile without objects, without text elements in
\* its three label collections and without a cached ledger, and leaves
\* disposed, the loaders, the decoded tile, the road intersection data, the
\* frame stamps, the forced hasGeometry and the owned textures as they were.
C21_ClearIsAReset ==
    [][\A t \in Tiles :
          (op'.name = "clear" /\ op'.tile = t) =>
              LET before == tile[t]
                  after == tile'[t]
              IN  /\ after.objects = <<>>
                  /\ after.m_textElementGroups = {}
                  /\ after.m_placedTextElements = {}
                  /\ after.m_userTextElements = <<>>
                  /\ after.m_resourceInfo = <<>>
                  /\ after.m_disposed = before.m_disposed
                  /\ after.m_tileLoader = before.m_tileLoader
                  /\ after.m_tileGeometryLoader = before.m_tileGeometryLoader
                  /\ after.m_decodedTile = before.m_decodedTile
                  /\ after.roadIntersectionData = before.roadIntersectionData
                  /\ after.frameNumLastRequested = before.frameNumLastRequested
                  /\ after.frameNumVisible = before.frameNumVisible
                  /\ after.frameNumLastVisible = before.frameNumLastVisible
                  /\ after.numFramesVisible = before.numFramesVisible
                  /\ after.visibilityCounter = before.visibilityCounter
                  /\ after.m_forceHasGeometry = before.m_forceHasGeometry
                  /\ after.m_ownedTextures = before.m_ownedTextures
                  /\ loaderState' = loaderState]_vars

\* clear() ran on a tile that had an object and a cached ledger, and the
\* tile still has its loaders, its decoded tile, its road data, its stamp,
\* its forced hasGeometry and its owned texture
C21_Witness ==
    /\ op.name = "clear" /\ op.tile = "A" /\ op.after = "getResourceInfo"
    /\ Count(Ev("geometryA", "dispose"), calls) >= 1
    /\ tile["A"].objects = <<>>
    /\ tile["A"].m_resourceInfo = <<>>
    /\ ~tile["A"].m_disposed
    /\ tile["A"].m_tileLoader = LoaderOf("A")
    /\ tile["A"].m_tileGeometryLoader = GeometryLoaderOf("A")
    /\ tile["A"].m_decodedTile = "withInfo"
    /\ tile["A"].roadIntersectionData # <<>>
    /\ tile["A"].frameNumLastRequested = 0
    /\ tile["A"].m_forceHasGeometry = "false"
    /\ tile["A"].m_ownedTextures = {"sharedTexture"}

\* the two operations that read the ledger
LedgerReads == {"getResourceInfo", "memoryUsage"}

\* C22: only getResourceInfo() and memoryUsage compute the ledger, and only
\* when none is cached; every other operation leaves the cached ledger or
\* drops it; a read that finds a cached ledger returns it and leaves the tile
\* as it is, so a read right after a read computes nothing; and memoryUsage
\* returns the heapSize that getResourceInfo() returns in the same state.
C22_LedgerIsALazyCache ==
    [][\A t \in Tiles :
          LET cached == tile[t].m_resourceInfo
              computes == Count(Ev(t, "computeResourceInfo"), calls')
          IN  /\ (op'.tile = t /\ op'.name \notin LedgerReads) =>
                     /\ computes = 0
                     /\ tile'[t].m_resourceInfo \in {cached, <<>>}
              /\ (op'.tile = t /\ op'.name \in LedgerReads) =>
                     /\ computes = IF cached = <<>> THEN 1 ELSE 0
                     /\ cached # <<>> => tile'[t] = tile[t]
                     /\ tile'[t].m_resourceInfo # <<>>
                     /\ ret' = << IF op'.name = "memoryUsage"
                                      THEN tile'[t].m_resourceInfo[1].heapSize
                                      ELSE tile'[t].m_resourceInfo[1] >>
                     /\ (op.tile = t /\ op.name \in LedgerReads) => calls' = <<>>
                     /\ op'.name = "memoryUsage" =>
                            ret' = <<ResourceInfoOf(tile[t]).heapSize>>]_vars

\* memoryUsage, read right after getResourceInfo(), computed nothing and
\* returned the heap size of a ledger that had been cached before the tile
\* got its present objects
C22_Witness ==
    /\ op.name = "memoryUsage" /\ op.tile = "A" /\ op.after = "getResourceInfo"
    /\ calls = <<>>
    /\ ret = <<tile["A"].m_resourceInfo[1].heapSize>>
    /\ tile["A"].m_resourceInfo[1] # computeResourceInfo(tile["A"])

\* C23: a ledger that getResourceInfo() computes has, of the tile it is
\* computed of: numTextElements, the number of elements in all groups;
\* numUserTextElements, the length of the user list; heapSize, the heap
\* estimate of the objects + 312 for each of these elements + the numBytes
\* of the decoded tile's tileInfo, if there is one + for road data with n
\* entries 100 + 132 n, + 8 n with ids, + 16 n with objInfos; gpuSize, the
\* GPU estimate of the objects.
C23_LedgerArithmetic ==
    [][\A t \in Tiles :
          ( /\ op'.name = "getResourceInfo" /\ op'.tile = t
            /\ calls' = <<Ev(t, "computeResourceInfo")>> ) =>
              LET r == tile[t]
                  ledger == ret'[1]
                  labels == SumOver([g \in r.m_textElementGroups |-> Len(g.elements)],
                                    r.m_textElementGroups)
                  userLabels == Len(r.m_userTextElements)
                  info == IF r.m_decodedTile = "withInfo" THEN TileInfoNumBytes ELSE 0
                  road == IF r.roadIntersectionData = <<>> THEN 0
                          ELSE LET record == r.roadIntersectionData[1]
                               IN  100 + 132 * record.n
                                     + (IF record.ids THEN 8 * record.n ELSE 0)
                                     + (IF record.objInfos THEN 16 * record.n ELSE 0)
              IN  /\ ledger.numTextElements = labels
                  /\ ledger.numUserTextElements = userLabels
                  /\ ledger.heapSize =
                         estimateObject3dSize(r.objects).heapSize
                             + 312 * (labels + userLabels) + info + road
                  /\ ledger.gpuSize = estimateObject3dSize(r.objects).gpuSize]_vars

\* getResourceInfo() computed the ledger of a tile with an object, text
\* elements in two groups, a user text element, a tileInfo and road data
\* with one entry, without ids and with objInfos
C23_Witness ==
    /\ op.name = "getResourceInfo" /\ op.tile = "A"
    /\ calls = <<Ev("A", "computeResourceInfo")>>
    /\ tile["A"].objects # <<>>
    /\ Cardinality(tile["A"].m_textElementGroups) = 2
    /\ Len(tile["A"].m_userTextElements) = 1
    /\ tile["A"].m_decodedTile = "withInfo"
    /\ tile["A"].roadIntersectionData = <<[n |-> 1, ids |-> FALSE, objInfos |-> TRUE]>>
    /\ ret[1].heapSize = estimateObject3dSize(tile["A"].objects).heapSize + 3 * 312 + 64 + 248
    /\ ret[1].numTextElements = 2

\* the calls in `cs` that are made on an ITileLoader
LoaderCalls(cs) ==
    SelectSeq(cs, LAMBDA e : e.target \in {LoaderOf(t) : t \in Tiles})

\* cancel() is called only by a dispose() of a tile that is not disposed, on
\* the loader attached to it, once, and never on a disposed tile: at most
\* once for an attached loader
CancelOnlyFromDispose ==
    [][\A t \in Tiles :
          /\ Ev(LoaderOf(t), "cancel") \in Range(calls') =>
                /\ op'.name = "dispose" /\ op'.tile = t
                /\ ~tile[t].m_disposed /\ tile'[t].m_disposed
                /\ tile[t].m_tileLoader = LoaderOf(t)
                /\ LoaderCalls(calls') = <<Ev(LoaderOf(t), "cancel")>>
          /\ (op'.tile = t /\ op'.name \in {"clear", "removeDecodedTile", "forceHasGeometry",
                                             "isVisible=", "setDecodedTile", "tileLoader="}) =>
                LoaderCalls(calls') = <<>>]_vars

\* setting visibleArea stores the area and makes one call, updatePriority(area),
\* on the loader attached at that moment, and no call if none is attached
VisibleAreaForwards ==
    [][\A t \in Tiles :
          (op'.name = "visibleArea=" /\ op'.tile = t) =>
              /\ \E area \in {0, 1} :
                    /\ tile'[t].m_visibleArea = area
                    /\ calls' = IF tile[t].m_tileLoader # Undefined
                                    THEN <<EvArg(tile[t].m_tileLoader, "updatePriority", area)>>
                                    ELSE <<>>
              /\ tile'[t].m_tileLoader = tile[t].m_tileLoader]_vars

\* the tile was disposed while it held its loader: dispose() cancelled the
\* loader, which nothing else does, and the loader is canceled
DisposedHoldingLoader(t) ==
    /\ tile[t].m_disposed
    /\ loaderState[t] = "Canceled"

C25_DisposedExactlyOnce ==
    [][\A t \in Tiles :
          LET objects == tile[t].objects
              visited == Flatten([i \in DOMAIN objects |-> Traverse(objects[i])])
          IN  ( /\ op'.name = "clear" /\ op'.tile = t
                /\ \A i, j \in DOMAIN visited : visited[i].id = visited[j].id => i = j ) =>
                  \A i \in DOMAIN visited :
                      /\ visited[i].geometry # Undefined =>
                             Count(Ev(visited[i].geometry, "dispose"), calls') = 1
                      /\ \A material \in Range(visited[i].material) \ {Undefined} :
                             Count(Ev(material, "dispose"), calls') = 1]_vars

\* the objects reached from `objects` whose materials the tile may dispose
DisposableObjects(r) ==
    {o \in ReachedObjects(r.objects) : o.id \notin r.keepsMaterialOf}

\* C26: clear() disposes a texture iff the tile registered it and it is on
\* a material of an object reached whose material shouldDisposeObjectMaterial
\* lets go; the materials of those objects are disposed whether their
\* textures are registered or not, those of the other objects are not; and
\* clear() keeps the registrations.
C26_TextureDisposedIffOwnedAndAllowed ==
    [][\A t \in Tiles :
          (op'.name = "clear" /\ op'.tile = t) =>
              LET r == tile[t]
                  allowed == UNION {Range(o.material) : o \in DisposableObjects(r)}
                                 \ {Undefined}
              IN  /\ \A texture \in Textures :
                        Count(Ev(texture, "dispose"), calls') >= 1 <=>
                            /\ texture \in r.m_ownedTextures
                            /\ \E material \in allowed :
                                   texture \in Range(MaterialTextures(material))
                  /\ \A material \in ReachedMaterials(r.objects) :
                        Count(Ev(material, "dispose"), calls') >= 1 <=> material \in allowed
                  /\ tile'[t].m_ownedTextures = r.m_ownedTextures]_vars

\* clear() of a tile that keeps the materials of mesh B and registered both
\* textures: the shared texture went with the material of mesh A, the
\* texture that is only on mesh B's material stayed, and both stay registered
C26_Witness ==
    /\ op.name = "clear" /\ op.tile = "A" /\ op.after = "addOwnedTexture"
    /\ tile["A"].keepsMaterialOf = {MeshB.id}
    /\ tile["A"].m_ownedTextures = Textures
    /\ Count(Ev("sharedTexture", "dispose"), calls) >= 1
    /\ Count(Ev("materialA", "dispose"), calls) >= 1
    /\ Count(Ev("geometryB", "dispose"), calls) >= 1
    /\ Count(Ev("ownTexture", "dispose"), calls) = 0
    /\ Count(Ev("materialB", "dispose"), calls) = 0

\* C27: forceHasGeometry(false) leaves the decoded tile as it is, and
\* forceHasGeometry(true) leaves the shared empty decoded tile in its place
\* and no cached ledger; from then on hasGeometry returns the forced value,
\* whatever the objects are, and no operation takes the tile back to the
\* rule of the objects: only forceHasGeometry changes the forced value, to
\* true or to false.
C27_ForceHasGeometryIsSticky ==
    [][\A t \in Tiles :
          /\ (op'.name = "forceHasGeometry" /\ op'.tile = t) =>
                \/ /\ tile'[t].m_forceHasGeometry = "false"
                   /\ tile'[t].m_decodedTile = tile[t].m_decodedTile
                   /\ tile'[t].m_resourceInfo = tile[t].m_resourceInfo
                \/ /\ tile'[t].m_forceHasGeometry = "true"
                   /\ tile'[t].m_decodedTile = defaultEmptyDecodedTile
                   /\ tile'[t].m_resourceInfo = <<>>
          /\ ~(op'.name = "forceHasGeometry" /\ op'.tile = t) =>
                tile'[t].m_forceHasGeometry = tile[t].m_forceHasGeometry
          /\ (op'.name = "hasGeometry" /\ op'.tile = t) =>
                /\ tile[t].m_forceHasGeometry = "false" => ret' = <<FALSE>>
                /\ tile[t].m_forceHasGeometry = "true" => ret' = <<TRUE>>
                /\ tile[t].m_forceHasGeometry = Undefined =>
                       ret' = <<tile[t].objects # <<>> >>]_vars

\* hasGeometry returned false on a tile with an object and a decoded tile,
\* after forceHasGeometry(false)
C27_Witness ==
    /\ op.name = "hasGeometry" /\ op.tile = "A" /\ op.after = "forceHasGeometry"
    /\ ret = <<FALSE>>
    /\ tile["A"].m_forceHasGeometry = "false"
    /\ tile["A"].objects # <<>>
    /\ tile["A"].m_decodedTile = "withInfo"
    /\ tile["A"].m_resourceInfo # <<>>

\* C28: a tile starts not disposed; only a dispose() of it makes it
\* disposed; a disposed tile stays disposed whatever operation runs; and the
\* disposed getter returns just that.
C28_DisposedIsTerminal ==
    /\ \A t \in Tiles : ~tile[t].m_disposed
    /\ [][\A t \in Tiles :
             /\ tile[t].m_disposed => tile'[t].m_disposed
             /\ (~tile[t].m_disposed /\ tile'[t].m_disposed) =>
                    (op'.name = "dispose" /\ op'.tile = t)
             /\ (op'.name = "dispose" /\ op'.tile = t) => tile'[t].m_disposed
             /\ (op'.name = "disposed" /\ op'.tile = t) =>
                    ret' = <<tile[t].m_disposed>>]_vars

\* the disposed getter returned true after a clear() of a disposed tile that
\* was given a decoded tile, a loader and labels again
C28_Witness ==
    /\ op.name = "disposed" /\ op.tile = "A" /\ op.after = "clear"
    /\ ret = <<TRUE>>
    /\ tile["A"].m_decodedTile = "plain"
    /\ tile["A"].m_tileLoader = LoaderOf("A")
    /\ tile["A"].frameNumLastRequested = 0
    /\ loaderState["A"] = "Initialized"

\* a tile as getTile leaves it, for this model's keys: whether it lies
\* beyond the latitude of 85 degrees that the Mercator projection ends at,
\* and the material of the pole on its side of the equator
BeyondMaxLatitude(geoBox) == geoBox.north > 85 \/ geoBox.south < -85

PoleMaterialOfSide(geoBox) ==
    IF geoBox.south >= 0 THEN poleMaterials.north ELSE poleMaterials.south

\* C29: getTile leaves a new tile, without a loader and with at most one
\* object, whatever the tile called so was before; if shouldRender is true of
\* its key at some zoom level (the zoom level is the key's level, the level
\* is 2 or more, and the geo box reaches beyond +-85 degrees) and both pole
\* materials are there, the tile has exactly one mesh, and hasGeometry and
\* allGeometryLoaded are true; a tile within +-85 degrees, or whose pole
\* material is missing, has no object.  shouldRender returns what is said.
C29_PolarGetTile ==
    [][\A t \in Tiles :
          /\ (op'.name = "getTile" /\ op'.tile = t) =>
                LET r == tile'[t]
                    box == r.geoBox
                IN  /\ [r EXCEPT !.objects = <<>>] = NewTile(box)
                    /\ r.m_tileLoader = Undefined /\ r.m_tileGeometryLoader = Undefined
                    /\ ~r.m_disposed
                    /\ Len(r.objects) <= 1
                    /\ ( /\ \E zoomLevel \in ZoomLevels :
                               zoomLevel = box.level /\ box.level >= 2
                                   /\ BeyondMaxLatitude(box)
                         /\ poleMaterials.north # Undefined
                         /\ poleMaterials.south # Undefined ) =>
                           /\ Len(r.objects) = 1
                           /\ r.objects[1].geometry # Undefined
                           /\ r.objects[1].material = <<PoleMaterialOfSide(box)>>
                           /\ hasGeometry(r)
                           /\ (allGeometryLoaded(tile[t]))'
                    /\ (~BeyondMaxLatitude(box) \/ PoleMaterialOfSide(box) = Undefined) =>
                           r.objects = <<>>
          /\ (op'.name = "shouldRender" /\ op'.tile = t) =>
                LET box == tile[t].geoBox
                    zoomLevel == ret'[1].zoomLevel
                IN  ret'[1].returned =
                        (zoomLevel = box.level /\ box.level >= 2 /\ BeyondMaxLatitude(box))]_vars

\* getTile made a tile with one mesh for a key of level 2 at the north pole,
\* in the place of a tile that had a loader and two objects
C29_Witness ==
    /\ op.name = "getTile" /\ op.tile = "A" /\ op.after \in {"tileLoader=", "objects.push"}
    /\ tile["A"].geoBox = [south |-> 45, north |-> 90, level |-> 2]
    /\ poleMaterials = [north |-> "northPoleMaterial", south |-> "southPoleMaterial"]
    /\ Len(tile["A"].objects) = 1
    /\ tile["A"].objects[1].material = <<"northPoleMaterial">>
    /\ tile["A"].m_tileLoader = Undefined

\* the calls of a method of the tile info writer in `cs`
WriterCalls(cs, method) ==
    SelectSeq(cs, LAMBDA e : e.target = TileInfoWriter /\ e.method = method)

\* for every ring of every polygon of the feature f, in order, whether its
\* winding is that of the first ring of its polygon
SameWindingAsFirst(f) ==
    Flatten([p \in DOMAIN f.geometry |->
        LET outlines == f.geometry[p].rings
        IN  [i \in DOMAIN outlines |->
                f.winding[outlines[i].positions] = f.winding[outlines[1].positions]]])

\* C30: processPolygonFeature with an empty list of techniques throws and
\* makes no call on the writer; with a non-empty list it adds one feature to
\* the polygon group for every technique of the list that is defined, in the
\* order of the list, and after them the points of every ring of every
\* polygon once, each ring as an outer ring iff its winding is that of the
\* first ring of its polygon.
C30_ProcessPolygonFeature ==
    [][op'.name = "processPolygonFeature" =>
          LET f == feature
              defined == SelectSeq(f.techniques, LAMBDA x : x # Undefined)
              features == WriterCalls(calls', "addFeature")
              rings == WriterCalls(calls', "addRingPoints")
          IN  IF f.techniques = <<>>
                  THEN calls' = <<>> /\ ret' = <<[thrown |-> "Error"]>>
                  ELSE /\ ret' = <<>>
                       /\ Len(calls') = 2 * Len(defined) + Len(rings)
                       /\ SubSeq(calls', 2 * Len(defined) + 1, Len(calls')) = rings
                       /\ Len(features) = Len(defined)
                       /\ \A i \in DOMAIN features :
                             /\ features[i].arg.group = PolygonGroup
                             /\ features[i].arg.technique = defined[i]
                             /\ features[i].arg.featureId = f.featureId
                             /\ features[i].arg.isPolygonGroup
                       /\ Len(rings) = Len(SameWindingAsFirst(f))
                       /\ \A i \in DOMAIN rings :
                             /\ rings[i].arg.group = PolygonGroup
                             /\ rings[i].arg.isOuterRing = SameWindingAsFirst(f)[i]]_vars

\* a feature with an undefined and a defined technique, a polygon without
\* rings and a polygon of two rings with different windings was processed: one
\* feature was added, then the first ring as an outer ring and the second not
C30_Witness ==
    /\ op.name = "processPolygonFeature"
    /\ feature.techniques = <<Undefined, "fill">>
    /\ Len(feature.geometry) = 2
    /\ feature.geometry[1].rings = <<>>
    /\ Len(feature.geometry[2].rings) = 2
    /\ Len(WriterCalls(calls, "addFeature")) = 1
    /\ Len(WriterCalls(calls, "addRingPoints")) = 2
    /\ calls[3].arg.isOuterRing /\ ~calls[4].arg.isOuterRing
    /\ ret = <<>>

\* the techniques of the list `techniques` that are defined, in its order
DefinedTechniques(techniques) == SelectSeq(techniques, LAMBDA x : x # Undefined)

\* C31: processPointFeature and processLineFeature skip the undefined
\* techniques; for every defined technique, in the order of the list, and
\* every position (every polyline) of the geometry, in its order, they add
\* one feature, followed at once by one feature point (by the points of
\* that line), so |defined techniques| * |items| features in all; road
\* segments are added at most once for a line feature, after the features,
\* and only when the emitter gathers road segments and a segmentId is found,
\* with startOffset 0 and endOffset 1 when they are not found.
C31_OneFeaturePerTechniqueAndItem ==
    [][op'.name \in {"processPointFeature", "processLineFeature"} =>
          LET f == feature
              isPoint == op'.name = "processPointFeature"
              defined == DefinedTechniques(f.techniques)
              items == Len(f.geometry)
              group == IF isPoint THEN PointGroup ELSE LineGroup
              features == WriterCalls(calls', "addFeature")
              roads == WriterCalls(calls', "addRoadSegments")
              written == SelectSeq(calls', LAMBDA e : e.method # "addTechnique"
                                                        /\ e.method # "addRoadSegments")
          IN  /\ Len(WriterCalls(calls', "addTechnique")) = Len(defined)
              /\ Len(features) = Len(defined) * items
              /\ Len(written) = 2 * Len(features)
              /\ Len(calls') = Len(defined) + Len(written) + Len(roads)
              /\ \A j \in 1..Len(features) :
                    LET technique == defined[((j - 1) \div items) + 1]
                        item == f.geometry[((j - 1) % items) + 1]
                        added == written[2 * j - 1]
                        points == written[2 * j]
                    IN  /\ added.method = "addFeature"
                        /\ added.arg.group = group
                        /\ added.arg.technique = technique
                        /\ added.arg.featureId = f.featureId
                        /\ ~added.arg.isPolygonGroup
                        /\ points.arg.group = group
                        /\ IF isPoint
                               THEN points.method = "addFeaturePoint"
                               ELSE /\ points.method = "addFeaturePoints"
                                    /\ Len(points.arg.points) = 2 * item.positions
              /\ isPoint => roads = <<>>
              /\ ~isPoint =>
                    /\ Len(roads) = IF f.m_gatherRoadSegments /\ f.segmentId # <<>>
                                        THEN 1 ELSE 0
                    /\ roads # <<>> =>
                          /\ calls'[Len(calls')] = roads[1]
                          /\ roads[1].arg.segmentId = f.segmentId[1]
                          /\ roads[1].arg.startOffset =
                                 (IF f.startOffset = <<>> THEN 0 ELSE f.startOffset[1])
                          /\ roads[1].arg.endOffset =
                                 (IF f.endOffset = <<>> THEN 1 ELSE f.endOffset[1])]_vars

\* a line feature of two polylines with an undefined and a defined technique
\* and a segmentId without offsets was processed by an emitter that gathers
\* road segments: two features with their points, then one road segment
\* from 0 to 1
C31_Witness ==
    /\ op.name = "processLineFeature"
    /\ feature.techniques = <<Undefined, "technique2">>
    /\ Len(feature.geometry) = 2
    /\ feature.m_gatherRoadSegments
    /\ feature.segmentId = <<0>> /\ feature.startOffset = <<>> /\ feature.endOffset = <<>>
    /\ Len(WriterCalls(calls, "addFeature")) = 2
    /\ Len(calls) = 6
    /\ calls[6].method = "addRoadSegments"
    /\ calls[6].arg.startOffset = 0 /\ calls[6].arg.endOffset = 1

\* a point feature of two positions with two defined techniques was
\* processed: four features, each followed by its feature point
C31_WitnessPoints ==
    /\ op.name = "processPointFeature"
    /\ feature.techniques = <<"technique1", "technique2">>
    /\ Len(feature.geometry) = 2
    /\ Len(WriterCalls(calls, "addFeature")) = 4
    /\ Len(WriterCalls(calls, "addFeaturePoint")) = 4

=============================================================================
